---- MODULE Spec2Model ----
(***************************************************************************)
(* A model of the RTMP server of ssungk/sol: the sessions (the later of    *)
(* the two session sources, unnamed/part_000, which pkg/rtmp/session.go    *)
(* matches but for the order of the play replies and the tag parsing),     *)
(* the server event loop and stream registry (pkg/rtmp/server.go), the     *)
(* stream record with its caches, priming burst and fan-out (pkg/rtmp/     *)
(* stream.go) and the message writer (pkg/rtmp/message_writer.go).         *)
(*                                                                         *)
(* One goroutine of the program is one process of the model: the reader    *)
(* of every session, the server event loop, the accept loop, and every     *)
(* goroutine the registry starts for a priming burst or a fan-out write.   *)
(* A step of a process is one access to state that another goroutine can   *)
(* see: a channel send or receive, a read or write of a stream record, a   *)
(* Write call on a connection.                                             *)
(***************************************************************************)
EXTENDS Integers, Sequences, FiniteSets, TLC

(***************************************************************************)
(* Bounds of the model                                                     *)
(***************************************************************************)
\* connections the accept loop can take
NumSessions == 2
\* client messages read by all sessions together (specification Spec)
MaxMsgs == 4
\* video messages of a publication (specification SpecGop)
MaxVideo == 52
\* its first messages, which are of any type; the later ones are inter frames
MaxHead == 3
\* events that wait in the channel while the publisher sends (SpecGop)
MaxQueued == 2
\* messages sent while a player joins: its play and live media (SpecFan)
MaxLive == 2
\* messages the publisher sends while the event channel is full (SpecChan)
MaxBurst == 3
\* events the event loop takes from the full channel meanwhile (SpecChan)
MaxDrain == 2
\* live messages the publisher sends to a player that has joined (SpecLive)
MaxFanned == 3

(***************************************************************************)
(* Program constants                                                       *)
(***************************************************************************)
\* capacity of the server event channel: make(chan interface{}, 100)
ChannelCap == 100
\* the literal of addVideoFrame's trim: "if len(gopFrames) > 50"
GopTrim == 50
\* AudioCache.maxFrames set by NewStream and RemovePublisher
AudioMaxFrames == 10
\* default of stream.gop_cache_size, handed to the server as StreamConfig
GopCacheSize == 10

Sessions == 1..NumSessions
AppNames == {"live"}
StreamKeys == {"a", "b"}

VARIABLES
    sessions,   \* Server.sessions: the ids the accept loop has stored
    sess,       \* the session objects: connection state and stream fields
    accepting,  \* the session the accept loop created and has not stored yet
    channel,    \* Server.channel, the event queue (a buffered Go channel)
    streams,    \* Server.streams: full path -> stream record
    genCount,   \* stream records allocated so far (identity of a record)
    outbox,     \* per reader: the rest of the handler it is executing
    conn,       \* per connection: the Write calls made on it, in order
    tasks,      \* the goroutines started by the registry that still run
    nextTask,   \* goroutines started so far
    msgCount,   \* messages the readers have read so far
    lastHandled,\* per session: the event of it the event loop handled last
    dropLog,    \* the events sendEvent dropped ("event channel full")
    server,     \* Server.ctx, Server.listener, the position of Server.Stop,
                \* whether eventLoop runs, whether Server.channel is closed,
                \* whether a goroutine has panicked
    codec       \* a messageWriter and a messageReader with the bytes on the
                \* wire between them

vars == <<sessions, sess, accepting, channel, streams, genCount, outbox, conn,
          tasks, nextTask, msgCount, lastHandled, dropLog, server, codec>>

(***************************************************************************)
(* Data                                                                    *)
(***************************************************************************)
\* constants.go / session_event.go: the event structs. One record shape is
\* used for all of them: ft is VideoData.FrameType, data the leading bytes
\* of the payload (or the metadata object), ts the ordinal of the event in
\* the order the sessions produce them (for media also the message timestamp).
Event(type, sid, name, ft, data, ts) ==
    [type |-> type, sid |-> sid, name |-> name, ft |-> ft, data |-> data, ts |-> ts]

\* no event of s has been handled yet
NoEvent(s) == Event("", s, "", "", <<>>, 0)

\* the server after NewServer and Start: context live, listener open, Stop
\* not called, event loop running, channel open
ServerStarted ==
    [ctx |-> "live", listener |-> "open", stop |-> "idle", loop |-> TRUE,
     closed |-> FALSE, panicked |-> FALSE]

\* chunk size of a new reader context, and the one handleConnect announces
DefaultChunkSize == 128
ConnectChunkSize == 4096

\* no writer and no reader apart from the ones of the sessions
NoCodec == [writer |-> 0, reader |-> 0, wire |-> <<>>, sent |-> <<>>, got |-> <<>>]

\* session struct after newSessionWithChannel, before the connection exists;
\* headers are the chunk streams the reader context holds a message header
\* for, chunkSize is the chunk size of the reader context, cleanups counts
\* the runs of cleanup on the session, peerSetChunk tells that the peer has
\* sent a valid Set Chunk Size since its last connect command
NoSession ==
    [st |-> "none", appName |-> "", streamName |-> "", streamID |-> 0,
     isPublishing |-> FALSE, isPlaying |-> FALSE, headers |-> {}, cleanups |-> 0,
     chunkSize |-> DefaultChunkSize, peerSetChunk |-> FALSE]

\* GetFullStreamPath
GetFullStreamPath(s) ==
    IF sess[s].appName = "" \/ sess[s].streamName = ""
    THEN ""
    ELSE sess[s].appName \o "/" \o sess[s].streamName

\* NewStream
NewStream(g) ==
    [gen |-> g, players |-> {}, lastMetadata |-> <<>>,
     videoSeqHdr |-> <<>>, gopFrames |-> <<>>,
     audioSeqHdr |-> <<>>, recentFrames |-> <<>>]

\* a message on the wire: who wrote it, what it carries, its timestamp
Msg(src, what, ts, id) == [src |-> src, what |-> what, ts |-> ts, id |-> id]

\* The three Write calls of writeCommand / writeAudioData / writeVideoData /
\* writeScriptData for a payload that fits one chunk: basic header, message
\* header, writeChunkedData.
WriteCalls(m) == << [op |-> "write", m |-> m, part |-> 1],
                    [op |-> "write", m |-> m, part |-> 2],
                    [op |-> "write", m |-> m, part |-> 3] >>

\* writeSetChunkSize: basic header, message header, binary.Write of the size
WriteSetChunkSizeCalls == WriteCalls(Msg("reply", "SetChunkSize", 0, 0))

Reply(what) == WriteCalls(Msg("reply", what, 0, 0))

Emit(e) == << [op |-> "emit", m |-> e, part |-> 0] >>

(***************************************************************************)
(* sendEvent: a non-blocking send; the event is dropped when the channel   *)
(* is full.                                                                *)
(***************************************************************************)
ChannelFull(ch) == Len(ch) >= ChannelCap

sendEvent(ch, e) == IF ChannelFull(ch) THEN ch ELSE Append(ch, e)

Dropped(ch, e) == IF ChannelFull(ch) THEN {[type |-> e.type, ft |-> e.ft, data |-> e.data]} ELSE {}

(***************************************************************************)
(* The reader goroutine of a session (handleRead).  A handler is run in    *)
(* program order.  Its assignments to the session's own fields are local.  *)
(* A sendEvent and closing the connection are seen by other goroutines.    *)
(* A Write call on the connection is seen by others only while the session *)
(* is or is about to become a player, for only then can a goroutine of the *)
(* registry write to the same connection.  A step of the reader is one     *)
(* operation that others see, together with the local ones around it; the  *)
(* rest of the handler stays in outbox.                                    *)
(***************************************************************************)
\* can a goroutine other than the reader write to the connection of s
Contended(s, ch) ==
    \/ \E p \in DOMAIN streams : s \in streams[p].players
    \/ \E t \in tasks : t.player = s
    \/ \E i \in 1..Len(ch) : ch[i].type = "PlayStarted" /\ ch[i].sid = s

RECURSIVE Exec(_, _, _)
Exec(s, ops, acc) ==
    IF ops = <<>> THEN [acc EXCEPT !.rest = <<>>]
    ELSE LET op == Head(ops)
         IN  IF op.op = "write" /\ sess[s].st # "open"
             \* a Write that fails makes the handler return
             THEN [acc EXCEPT !.rest = <<>>]
             ELSE IF op.op = "setChunkSize"
             \* reader.setChunkSize: local to the reader
             THEN Exec(s, Tail(ops), [acc EXCEPT !.chunkSize = op.m])
             ELSE IF op.op = "write" /\ ~Contended(s, acc.channel)
             THEN Exec(s, Tail(ops),
                       [acc EXCEPT !.log = Append(@, [m |-> op.m, part |-> op.part])])
             ELSE IF acc.seen THEN [acc EXCEPT !.rest = ops]
             ELSE IF op.op = "write"
             THEN Exec(s, Tail(ops),
                       [acc EXCEPT !.log = Append(@, [m |-> op.m, part |-> op.part]),
                                   !.seen = TRUE])
             ELSE IF op.op = "emit"
             THEN Exec(s, Tail(ops),
                       [acc EXCEPT !.channel = sendEvent(@, op.m),
                                   !.dropped = @ \cup Dropped(acc.channel, op.m),
                                   !.seen = TRUE])
             ELSE [acc EXCEPT !.closed = TRUE, !.rest = <<>>]

\* a send on Server.channel after Stop has closed it panics, the default
\* branch of the select notwithstanding
SendPanics(r) == server.closed /\ (r.channel # channel \/ r.dropped # dropLog)

Handle(s, fields, ops) ==
    LET r == Exec(s, ops, [log |-> conn[s], channel |-> channel, dropped |-> dropLog,
                           closed |-> FALSE, seen |-> FALSE, rest |-> <<>>,
                           chunkSize |-> fields.chunkSize])
        after == [fields EXCEPT !.chunkSize = r.chunkSize]
    IN  /\ sess' = [sess EXCEPT ![s] =
                      IF r.closed THEN [after EXCEPT !.st = "closed"] ELSE after]
        /\ channel' = IF SendPanics(r) THEN channel ELSE r.channel
        /\ dropLog' = r.dropped
        /\ conn' = [conn EXCEPT ![s] = r.log]
        /\ outbox' = [outbox EXCEPT ![s] = r.rest]
        /\ server' = IF SendPanics(r) THEN [server EXCEPT !.panicked = TRUE] ELSE server

\* the ordinal of the k-th event of the handler that is about to run
Stamp(k) == 2 * (msgCount + 1) + k

\* the reader is between two messages
Reading(s) == sess[s].st = "open" /\ outbox[s] = <<>>

\* the reader reads one more message and runs its handler
Read(s, fields, ops) ==
    /\ Reading(s)
    /\ msgCount' = msgCount + 1
    /\ Handle(s, fields, ops)
    /\ UNCHANGED <<sessions, accepting, streams, genCount, tasks, nextTask,
                   lastHandled, codec>>

\* the reader goes on with the handler it is in
ReaderStep(s) ==
    /\ outbox[s] # <<>>
    /\ Handle(s, sess[s], outbox[s])
    /\ UNCHANGED <<sessions, accepting, streams, genCount, tasks, nextTask,
                   msgCount, lastHandled, codec>>

PathOf(app, key) == IF app = "" \/ key = "" THEN "" ELSE app \o "/" \o key

\* reader.setChunkSize(size) as a step of a handler
SetChunkSizeCall(size) == << [op |-> "setChunkSize", m |-> size, part |-> 0] >>

\* handleConnect with the _result written first and the chunk size of the
\* reader left alone
handleConnectResultFirst(s, app) ==
    Read(s, [sess[s] EXCEPT !.appName = app, !.peerSetChunk = FALSE],
         Reply("_result") \o WriteSetChunkSizeCalls)

\* handleConnect: store the app name, write Set-Chunk-Size, set the chunk
\* size of the reader, write _result
handleConnect(s, app) ==
    Read(s, [sess[s] EXCEPT !.appName = app, !.peerSetChunk = FALSE],
         WriteSetChunkSizeCalls \o SetChunkSizeCall(ConnectChunkSize)
         \o Reply("_result"))

\* handleCreateStream
handleCreateStream(s) ==
    Read(s, [sess[s] EXCEPT !.streamID = 1], Reply("_result"))

\* handlePublish
handlePublish(s, key) ==
    LET path == PathOf(sess[s].appName, key)
    IN  Read(s, [sess[s] EXCEPT !.streamName = key, !.isPublishing = TRUE],
             IF path = "" THEN <<>>
             ELSE Emit(Event("PublishStarted", s, path, "", <<>>, Stamp(0)))
                  \o Reply("NetStream.Publish.Start"))

\* handlePlay with the event sent before the notifications are written
handlePlayEventFirst(s, key) ==
    LET path == PathOf(sess[s].appName, key)
    IN  Read(s, [sess[s] EXCEPT !.streamName = key, !.isPlaying = TRUE],
             IF path = "" THEN <<>>
             ELSE Emit(Event("PlayStarted", s, path, "", <<>>, Stamp(0)))
                  \o Reply("NetStream.Play.Reset") \o Reply("NetStream.Play.Start"))

\* handlePlay: NetStream.Play.Reset, NetStream.Play.Start, then PlayStarted
handlePlay(s, key) ==
    LET path == PathOf(sess[s].appName, key)
    IN  Read(s, [sess[s] EXCEPT !.streamName = key, !.isPlaying = TRUE],
             IF path = "" THEN <<>>
             ELSE Reply("NetStream.Play.Reset") \o Reply("NetStream.Play.Start")
                  \o Emit(Event("PlayStarted", s, path, "", <<>>, Stamp(0))))

\* the PublishStopped / PlayStopped events of closeStream, deleteStream, cleanup
StopEvents(s) ==
    LET path == GetFullStreamPath(s)
    IN  (IF sess[s].isPublishing /\ path # ""
         THEN Emit(Event("PublishStopped", s, path, "", <<>>, Stamp(0))) ELSE <<>>)
        \o
        (IF sess[s].isPlaying /\ path # ""
         THEN Emit(Event("PlayStopped", s, path, "", <<>>, Stamp(1))) ELSE <<>>)

\* handleFCUnpublish
handleFCUnpublish(s) ==
    LET path == GetFullStreamPath(s)
        stop == sess[s].isPublishing /\ path # ""
    IN  Read(s, [sess[s] EXCEPT !.isPublishing = IF stop THEN FALSE ELSE @],
             Reply("_result")
             \o (IF stop
                 THEN Emit(Event("PublishStopped", s, path, "", <<>>, Stamp(0)))
                 ELSE <<>>)
             \o Reply("onFCUnpublish"))

\* handleCloseStream
handleCloseStream(s) ==
    Read(s, [sess[s] EXCEPT !.isPublishing = FALSE, !.isPlaying = FALSE], StopEvents(s))

\* handleDeleteStream
handleDeleteStream(s) ==
    Read(s, [sess[s] EXCEPT !.isPublishing = FALSE, !.isPlaying = FALSE], StopEvents(s))

\* a cleanup that sends the stop events and leaves the session fields alone
cleanupKeepsFields(s) ==
    Handle(s, [sess[s] EXCEPT !.cleanups = @ + 1],
           StopEvents(s) \o << [op |-> "close", m |-> Msg("", "", 0, 0), part |-> 0] >>)

\* cleanup, then closeWithLog(s.conn): the deferred function of handleRead
cleanup(s) ==
    Handle(s, [sess[s] EXCEPT !.isPublishing = FALSE, !.isPlaying = FALSE,
                              !.streamID = 0, !.streamName = "", !.appName = "",
                              !.cleanups = @ + 1],
           StopEvents(s) \o << [op |-> "close", m |-> Msg("", "", 0, 0), part |-> 0] >>)

\* handleRead: the handshake succeeds or fails
handshake(s, ok) ==
    /\ sess[s].st = "handshake"
    /\ IF ok
       THEN /\ sess' = [sess EXCEPT ![s].st = "open"]
            /\ UNCHANGED <<channel, dropLog, conn, outbox, server>>
       ELSE cleanup(s)
    /\ UNCHANGED <<sessions, accepting, streams, genCount, tasks, nextTask,
                   msgCount, lastHandled, codec>>

\* handleRead: readNextMessage returns an error (the peer closed, a parse error)
ReadError(s) ==
    /\ Reading(s)
    /\ cleanup(s)
    /\ UNCHANGED <<sessions, accepting, streams, genCount, tasks, nextTask,
                   msgCount, lastHandled, codec>>

(***************************************************************************)
(* The stream record (stream.go)                                           *)
(***************************************************************************)
Frame(ft, ts, data) == [frameType |-> ft, timestamp |-> ts, data |-> data]

\* the last n elements of a slice: q[len(q)-n:]
LastN(q, n) == IF Len(q) > n THEN SubSeq(q, Len(q) - n + 1, Len(q)) ELSE q

\* addVideoFrame
addVideoFrame(st, ft, ts, data) ==
    IF ft = "AVC sequence header"
    THEN [st EXCEPT !.videoSeqHdr = << Frame(ft, ts, data) >>]
    ELSE IF ft = "key frame" \/ ft = "AVC NALU"
    THEN [st EXCEPT !.gopFrames =
            Append(IF ft = "key frame" THEN <<>> ELSE @, Frame(ft, ts, data))]
    ELSE IF ft = "inter frame" /\ Len(st.gopFrames) > 0
    THEN [st EXCEPT !.gopFrames = LastN(Append(@, Frame(ft, ts, data)), GopTrim)]
    ELSE st

\* the test of addAudioFrame for an AAC sequence header
IsAACSequenceHeader(data) ==
    Len(data) > 1 /\ (data[1] \div 16) % 16 = 10 /\ data[2] = 0

\* addAudioFrame
addAudioFrame(st, ts, data) ==
    IF IsAACSequenceHeader(data)
    THEN [st EXCEPT !.audioSeqHdr = << Frame("AAC sequence header", ts, data) >>]
    ELSE [st EXCEPT !.recentFrames =
            LastN(Append(@, Frame("audio", ts, data)), AudioMaxFrames)]

\* SetMetadata
SetMetadata(st, metadata) == [st EXCEPT !.lastMetadata = << metadata >>]

\* a RemovePublisher that leaves the video sequence header in the cache
RemovePublisherKeepsHeader(st) ==
    [st EXCEPT !.gopFrames = <<>>, !.audioSeqHdr = <<>>,
               !.recentFrames = <<>>, !.lastMetadata = <<>>]

\* RemovePublisher: clears every cache, keeps the players
RemovePublisher(st) ==
    [st EXCEPT !.videoSeqHdr = <<>>, !.gopFrames = <<>>, !.audioSeqHdr = <<>>,
               !.recentFrames = <<>>, !.lastMetadata = <<>>]

\* IsActive
IsActive(st) ==
    \/ st.players # {}
    \/ Len(st.gopFrames) > 0
    \/ Len(st.recentFrames) > 0
    \/ st.videoSeqHdr # <<>>
    \/ st.audioSeqHdr # <<>>
    \/ st.lastMetadata # <<>>

\* CleanupSession
CleanupSession(st, s) == [st EXCEPT !.players = @ \ {s}]

(***************************************************************************)
(* Goroutines started by the registry.  A task is                          *)
(*   kind   "prime" (SendCachedDataToPlayer) or "live" (send*ToPlayer)     *)
(*   player the session written to, path and gen the stream record read    *)
(*   pc     the next read of the stream record ("prime" only)              *)
(*   out    the Write calls left of the message being written              *)
(*   rest   the frames left of the slice a range loop walks                *)
(***************************************************************************)
Task(id, kind, player, path, gen, pc, out) ==
    [id |-> id, kind |-> kind, player |-> player, path |-> path, gen |-> gen,
     pc |-> pc, out |-> out, rest |-> <<>>]

Rank(p, S) == Cardinality({q \in S : q < p})

\* "for player := range s.players { go s.sendXToPlayer(player, event) }"
FanOut(st, path, what, ts) ==
    { Task(nextTask + Rank(p, st.players) + 1, "live", p, path, st.gen, "send",
           WriteCalls(Msg("live", what, ts, nextTask + Rank(p, st.players) + 1)))
      : p \in st.players }

\* "go s.SendCachedDataToPlayer(player)" of AddPlayer
PrimingTask(st, path, p) ==
    Task(nextTask + 1, "prime", p, path, st.gen, "meta", <<>>)

(***************************************************************************)
(* The server event loop (server.go): channelHandler on one event          *)
(***************************************************************************)
RemoveStream(m, name) == [p \in DOMAIN m \ {name} |-> m[p]]

\* what the handlers of channelHandler leave: the streams map, the number of
\* records allocated, the goroutines started, the session map
Outcome(m, g, started, ss) == [streams |-> m, genCount |-> g, started |-> started, sessions |-> ss]

NoChange == Outcome(streams, genCount, {}, sessions)

\* GetOrCreateStream
GetOrCreateStream(name) ==
    IF name \in DOMAIN streams
    THEN Outcome(streams, genCount, {}, sessions)
    ELSE Outcome(streams @@ (name :> NewStream(genCount + 1)), genCount + 1, {}, sessions)

\* handlePublishStarted (SetPublisher only logs)
handlePublishStarted(e) ==
    IF e.sid \notin sessions THEN NoChange ELSE GetOrCreateStream(e.name)

\* a stream record is put back, or removed when it is not active any more
PutOrRemove(name, st) ==
    IF IsActive(st)
    THEN Outcome([streams EXCEPT ![name] = st], genCount, {}, sessions)
    ELSE Outcome(RemoveStream(streams, name), genCount, {}, sessions)

\* handlePublishStopped
handlePublishStopped(e) ==
    IF e.name \notin DOMAIN streams THEN NoChange
    ELSE PutOrRemove(e.name, RemovePublisher(streams[e.name]))

\* handlePlayStarted, with AddPlayer
handlePlayStarted(e) ==
    IF e.sid \notin sessions THEN NoChange
    ELSE LET got == GetOrCreateStream(e.name)
             st == [got.streams[e.name] EXCEPT !.players = @ \cup {e.sid}]
         IN  Outcome([got.streams EXCEPT ![e.name] = st], got.genCount,
                     {PrimingTask(st, e.name, e.sid)}, sessions)

\* handlePlayStopped, with RemovePlayer
handlePlayStopped(e) ==
    IF e.sid \notin sessions THEN NoChange
    ELSE IF e.name \notin DOMAIN streams THEN NoChange
    ELSE PutOrRemove(e.name, [streams[e.name] EXCEPT !.players = @ \ {e.sid}])

\* handleAudioData, with ProcessAudioData
handleAudioData(e) ==
    IF e.name \notin DOMAIN streams THEN NoChange
    ELSE LET st == addAudioFrame(streams[e.name], e.ts, e.data)
         IN  Outcome([streams EXCEPT ![e.name] = st], genCount,
                     FanOut(st, e.name, "audio", e.ts), sessions)

\* handleVideoData, with ProcessVideoData
handleVideoData(e) ==
    IF e.name \notin DOMAIN streams THEN NoChange
    ELSE LET st == addVideoFrame(streams[e.name], e.ft, e.ts, e.data)
         IN  Outcome([streams EXCEPT ![e.name] = st], genCount,
                     FanOut(st, e.name, e.ft, e.ts), sessions)

\* handleMetaData, with ProcessMetaData
handleMetaData(e) ==
    IF e.name \notin DOMAIN streams THEN NoChange
    ELSE LET st == SetMetadata(streams[e.name], e.data)
         IN  Outcome([streams EXCEPT ![e.name] = st], genCount,
                     FanOut(st, e.name, "onMetaData", e.ts), sessions)

\* TerminatedEventHandler, with cleanupSessionFromAllStreams
TerminatedEventHandler(e) ==
    IF e.sid \notin sessions THEN NoChange
    ELSE LET cleaned == [p \in DOMAIN streams |-> CleanupSession(streams[p], e.sid)]
             kept == {p \in DOMAIN streams : IsActive(cleaned[p])}
         IN  Outcome([p \in kept |-> cleaned[p]], genCount, {}, sessions \ {e.sid})

\* channelHandler
channelHandler(e) ==
    CASE e.type = "Terminated"     -> TerminatedEventHandler(e)
      [] e.type = "PublishStarted" -> handlePublishStarted(e)
      [] e.type = "PublishStopped" -> handlePublishStopped(e)
      [] e.type = "PlayStarted"    -> handlePlayStarted(e)
      [] e.type = "PlayStopped"    -> handlePlayStopped(e)
      [] e.type = "AudioData"      -> handleAudioData(e)
      [] e.type = "VideoData"      -> handleVideoData(e)
      [] e.type = "MetaData"       -> handleMetaData(e)
      [] OTHER                     -> NoChange

\* a receive that takes the event sent last
ReceiveNewest(ch) == ch[Len(ch)]

\* the event the event loop receives next: "case data := <-s.channel"
Receive(ch) == Head(ch)

\* eventLoop: receive one event and handle it
eventLoop ==
    /\ server.loop
    /\ channel # <<>>
    /\ LET e == Receive(channel)
           out == channelHandler(e)
       IN  /\ channel' = Tail(channel)
           /\ streams' = out.streams
           /\ genCount' = out.genCount
           /\ sessions' = out.sessions
           /\ tasks' = tasks \cup out.started
           /\ nextTask' = nextTask + Cardinality(out.started)
           /\ lastHandled' = [lastHandled EXCEPT ![e.sid] = e]
    /\ UNCHANGED <<sess, accepting, outbox, conn, msgCount, dropLog,
                   server, codec>>

(***************************************************************************)
(* The accept loop (acceptConnections)                                     *)
(***************************************************************************)
\* newSessionWithChannel: the session exists and its reader runs
newSessionWithChannel(s) ==
    /\ server.listener = "open"
    /\ accepting = 0
    /\ sess[s].st = "none"
    /\ \A q \in Sessions : q < s => sess[q].st # "none"
    /\ sess' = [sess EXCEPT ![s].st = "handshake"]
    /\ accepting' = s
    /\ UNCHANGED <<sessions, channel, streams, genCount, outbox, conn, tasks,
                   nextTask, msgCount, lastHandled, dropLog, server, codec>>

\* "s.sessions[session.sessionId] = session"
storeSession ==
    /\ accepting # 0
    /\ sessions' = sessions \cup {accepting}
    /\ accepting' = 0
    /\ UNCHANGED <<sess, channel, streams, genCount, outbox, conn, tasks,
                   nextTask, msgCount, lastHandled, dropLog, server, codec>>

(***************************************************************************)
(* Media messages of a publisher (handleVideo, handleAudio, handleOnMetaData)*)
(***************************************************************************)
\* leading bytes of the video payloads the clients send: an H.264 sequence
\* header, H.264 key and inter NALUs, H.263 key and inter frames
VideoInputs == { <<23, 0>>, <<23, 1>>, <<39, 1>>, <<18>>, <<34>> }

\* leading bytes of the audio payloads: AAC sequence header, AAC raw
AudioInputs == { <<175, 0>>, <<175, 1>> }

\* metadata objects: width and height
MetaInputs == { <<1280, 720>> }

\* handleVideo: the frame type from the first byte, replaced by the AVC
\* packet type for codec 7
FrameType(data) ==
    LET class == (data[1] \div 16) % 16
        base == CASE class = 1 -> "key frame"
                  [] class = 2 -> "inter frame"
                  [] class = 3 -> "disposable inter frame"
                  [] class = 4 -> "generated key frame"
                  [] class = 5 -> "video info/command frame"
                  [] OTHER -> "unknown"
    IN  IF data[1] % 16 = 7 /\ Len(data) > 1
        THEN CASE data[2] = 0 -> "AVC sequence header"
               [] data[2] = 1 -> "AVC NALU"
               [] data[2] = 2 -> "AVC end of sequence"
               [] OTHER -> base
        ELSE base

\* handleVideo
handleVideo(s, data) ==
    LET path == GetFullStreamPath(s)
    IN  Read(s, sess[s],
             IF ~sess[s].isPublishing \/ path = "" \/ Len(data) = 0 THEN <<>>
             ELSE Emit(Event("VideoData", s, path, FrameType(data), data, Stamp(0))))

\* handleAudio without the check of isPublishing
handleAudioNoGuard(s, data) ==
    LET path == GetFullStreamPath(s)
    IN  Read(s, sess[s],
             IF path = "" \/ Len(data) = 0 THEN <<>>
             ELSE Emit(Event("AudioData", s, path, "", data, Stamp(0))))

\* handleAudio
handleAudio(s, data) ==
    LET path == GetFullStreamPath(s)
    IN  Read(s, sess[s],
             IF ~sess[s].isPublishing \/ path = "" \/ Len(data) = 0 THEN <<>>
             ELSE Emit(Event("AudioData", s, path, "", data, Stamp(0))))

\* handleOnMetaData
handleOnMetaData(s, metadata) ==
    LET path == GetFullStreamPath(s)
    IN  Read(s, sess[s],
             IF path = "" THEN <<>>
             ELSE Emit(Event("MetaData", s, path, "", metadata, Stamp(0))))

(***************************************************************************)
(* Steps of the goroutines the registry started                            *)
(***************************************************************************)
\* the stream record a goroutine holds a pointer to; a record that left the
\* map has no players and empty caches
Deref(t) ==
    IF t.path \in DOMAIN streams /\ streams[t.path].gen = t.gen
    THEN streams[t.path]
    ELSE NewStream(t.gen)

PrimeWrite(t, what, f) == WriteCalls(Msg("prime", what, f.timestamp, t.id))

\* a burst that sends the GOP frames first and the sequence headers after
AfterPcGopFirst(pc) ==
    CASE pc = "meta" -> "check"
      [] pc = "check" -> "gop"
      [] pc = "gop" -> "gopsend"
      [] pc = "gopsend" -> "avc"
      [] pc = "avc" -> "aac"
      [] pc = "aac" -> "aud"
      [] pc = "aud" -> "audsend"
      [] OTHER -> "done"

\* the statement order of SendCachedDataToPlayer: the metadata, the test for
\* cached data, the AVC header, the AAC header, the GOP frames, the audio
AfterPc(pc) ==
    CASE pc = "meta" -> "check"
      [] pc = "check" -> "avc"
      [] pc = "avc" -> "aac"
      [] pc = "aac" -> "gop"
      [] pc = "gop" -> "gopsend"
      [] pc = "gopsend" -> "aud"
      [] pc = "aud" -> "audsend"
      [] OTHER -> "done"

\* SendCachedDataToPlayer between two Write calls: the next read of the
\* stream record and the message it leads to
PrimeRead(t) ==
    LET st == Deref(t)
        next == AfterPc(t.pc)
    IN  CASE t.pc = "meta" ->
               [t EXCEPT !.pc = next,
                         !.out = IF st.lastMetadata # <<>>
                                 THEN WriteCalls(Msg("prime", "onMetaData", 0, t.id))
                                 ELSE <<>>]
          [] t.pc = "check" ->
               [t EXCEPT !.pc = IF st.videoSeqHdr # <<>> \/ Len(st.gopFrames) > 0
                                   \/ st.audioSeqHdr # <<>> \/ Len(st.recentFrames) > 0
                                THEN next ELSE "done"]
          [] t.pc = "avc" ->
               [t EXCEPT !.pc = next,
                         !.out = IF st.videoSeqHdr # <<>>
                                 THEN PrimeWrite(t, st.videoSeqHdr[1].frameType, st.videoSeqHdr[1])
                                 ELSE <<>>]
          [] t.pc = "aac" ->
               [t EXCEPT !.pc = next,
                         !.out = IF st.audioSeqHdr # <<>>
                                 THEN PrimeWrite(t, "AAC sequence header", st.audioSeqHdr[1])
                                 ELSE <<>>]
          [] t.pc = "gop" ->
               [t EXCEPT !.pc = next, !.rest = st.gopFrames]
          [] t.pc = "gopsend" ->
               IF t.rest = <<>> THEN [t EXCEPT !.pc = next]
               ELSE [t EXCEPT !.out = PrimeWrite(t, Head(t.rest).frameType, Head(t.rest)),
                              !.rest = Tail(t.rest)]
          [] t.pc = "aud" ->
               [t EXCEPT !.pc = next, !.rest = st.recentFrames]
          [] t.pc = "audsend" ->
               IF t.rest = <<>> THEN [t EXCEPT !.pc = next]
               ELSE [t EXCEPT !.out = PrimeWrite(t, "audio", Head(t.rest)),
                              !.rest = Tail(t.rest)]
          [] OTHER -> [t EXCEPT !.pc = "done"]

\* a goroutine with nothing left to do has returned
Finished(t) == t.out = <<>> /\ (t.kind = "live" \/ t.pc = "done")

\* one step of a goroutine: a Write call on the player's connection (the
\* message is given up when the Write fails), or the next read
TaskStep(t) ==
    /\ t \in tasks
    /\ LET open == sess[t.player].st = "open"
           t2 == IF t.out # <<>>
                 THEN [t EXCEPT !.out = IF open THEN Tail(@) ELSE <<>>]
                 ELSE PrimeRead(t)
       IN  /\ conn' = IF t.out # <<>> /\ open
                      THEN [conn EXCEPT ![t.player] =
                              Append(@, [m |-> Head(t.out).m, part |-> Head(t.out).part])]
                      ELSE conn
           /\ tasks' = (tasks \ {t}) \cup (IF Finished(t2) THEN {} ELSE {t2})
    /\ UNCHANGED <<sessions, sess, accepting, channel, streams, genCount, outbox,
                   nextTask, msgCount, lastHandled, dropLog, server, codec>>

(***************************************************************************)
(* The server with its clients                                             *)
(***************************************************************************)
Init ==
    /\ sessions = {}
    /\ sess = [s \in Sessions |-> NoSession]
    /\ accepting = 0
    /\ channel = <<>>
    /\ streams = << >>
    /\ genCount = 0
    /\ outbox = [s \in Sessions |-> <<>>]
    /\ conn = [s \in Sessions |-> <<>>]
    /\ tasks = {}
    /\ nextTask = 0
    /\ msgCount = 0
    /\ lastHandled = [s \in Sessions |-> NoEvent(s)]
    /\ dropLog = {}
    /\ server = ServerStarted
    /\ codec = NoCodec

\* the clients send MaxMsgs messages at most
MoreMessages == msgCount < MaxMsgs

Next ==
    \/ \E s \in Sessions : newSessionWithChannel(s)
    \/ storeSession
    \/ \E s \in Sessions : handshake(s, TRUE)
    \/ \E s \in Sessions : handshake(s, FALSE)
    \/ \E s \in Sessions, app \in AppNames : MoreMessages /\ handleConnect(s, app)
    \/ \E s \in Sessions : MoreMessages /\ handleCreateStream(s)
    \/ \E s \in Sessions, key \in StreamKeys : MoreMessages /\ handlePublish(s, key)
    \/ \E s \in Sessions, key \in StreamKeys : MoreMessages /\ handlePlay(s, key)
    \/ \E s \in Sessions : MoreMessages /\ handleFCUnpublish(s)
    \/ \E s \in Sessions : MoreMessages /\ handleCloseStream(s)
    \/ \E s \in Sessions : MoreMessages /\ handleDeleteStream(s)
    \/ \E s \in Sessions : ReaderStep(s)
    \/ \E s \in Sessions : ReadError(s)
    \/ eventLoop
    \/ \E t \in tasks : TaskStep(t)

Spec == Init /\ [][Next]_vars

(***************************************************************************)
(* Publishers of a path                                                    *)
(***************************************************************************)
\* the sessions the registry took as publisher of path p (handlePublishStarted
\* ran SetPublisher for them) and that have sent nothing since
PublishersOf(p) ==
    {s \in sessions : lastHandled[s].type = "PublishStarted" /\ lastHandled[s].name = p}

\* the connection of s carries the whole message "what"
Received(s, what) ==
    \E i \in 1..Len(conn[s]) : conn[s][i].m.what = what /\ conn[s][i].part = 3

\* C1: each path has at most one session recorded as its publisher
C1_OnePublisherPerPath ==
    \A p \in DOMAIN streams : Cardinality(PublishersOf(p)) <= 1

\* C2: when two sessions publish the same path exactly one of them becomes
\* the publisher; the other one is not told NetStream.Publish.Start and does
\* not take the publisher role
C2_SecondPublishRejected ==
    \A s1, s2 \in Sessions :
        (/\ s1 # s2
         /\ outbox[s1] = <<>> /\ outbox[s2] = <<>>
         /\ GetFullStreamPath(s1) # ""
         /\ GetFullStreamPath(s1) = GetFullStreamPath(s2)
         /\ Received(s1, "NetStream.Publish.Start")
         /\ sess[s1].isPublishing)
        => ~(Received(s2, "NetStream.Publish.Start") /\ sess[s2].isPublishing)

(***************************************************************************)
(* Order of the events of one session                                      *)
(***************************************************************************)
\* the ordinals of the events of s that wait in the channel, in channel order
Waiting(s) == SelectSeq(channel, LAMBDA e : e.sid = s)

Log(ops) == [i \in 1..Len(ops) |-> [m |-> ops[i].m, part |-> ops[i].part]]

Connected(app) ==
    [NoSession EXCEPT !.st = "open", !.appName = app, !.chunkSize = ConnectChunkSize]

InitGop ==
    /\ sessions = {1}
    /\ sess = [s \in Sessions |->
                 IF s = 1
                 THEN [Connected("live") EXCEPT !.streamName = "a", !.isPublishing = TRUE]
                 ELSE NoSession]
    /\ accepting = 0
    /\ channel = <<>>
    /\ streams = ("live/a" :> NewStream(1))
    /\ genCount = 1
    /\ outbox = [s \in Sessions |-> <<>>]
    /\ conn = [s \in Sessions |->
                 IF s = 1
                 THEN Log(WriteSetChunkSizeCalls \o Reply("_result")
                          \o Reply("NetStream.Publish.Start"))
                 ELSE <<>>]
    /\ tasks = {}
    /\ nextTask = 0
    /\ msgCount = 2
    /\ lastHandled = [s \in Sessions |->
                        IF s = 1 THEN Event("PublishStarted", 1, "live/a", "", <<>>, 4)
                        ELSE NoEvent(s)]
    /\ dropLog = {}
    /\ server = ServerStarted
    /\ codec = NoCodec

\* the video messages the publisher still sends
VideoBudget(data) ==
    /\ msgCount < 2 + MaxVideo
    /\ msgCount < 2 + MaxHead \/ data = <<34>>
    /\ Len(channel) < MaxQueued

NextGop ==
    \/ \E data \in VideoInputs : VideoBudget(data) /\ handleVideo(1, data)
    \/ eventLoop

SpecGop == InitGop /\ [][NextGop]_vars

\* a video keyframe: the frame-type nibble of the first payload byte is 1
IsKeyframe(data) == Len(data) > 0 /\ (data[1] \div 16) % 16 = 1

\* C3: the GOP buffer of a stream is empty or starts with a video keyframe
C3_GopStartsWithKeyframe ==
    \A p \in DOMAIN streams :
        LET gop == streams[p].gopFrames
        IN  gop = <<>> \/ IsKeyframe(gop[1].data)

\* C4: the GOP buffer of a stream never holds more frames than the
\* configured bound
C4_GopWithinConfiguredBound ==
    \A p \in DOMAIN streams : Len(streams[p].gopFrames) <= GopCacheSize

(***************************************************************************)
(* A player joins a running publication.  SpecFan starts where session 1   *)
(* publishes "live/a" and the registry has cached its metadata, its AVC    *)
(* and AAC sequence headers and a GOP of two frames, and                   *)
(* session 2 has connected to "live".                                      *)
(***************************************************************************)
\* the stream record after the publisher's first five media messages
PrimedStream ==
    LET s0 == SetMetadata(NewStream(1), <<1280, 720>>)
        s1 == addVideoFrame(s0, FrameType(<<23, 0>>), 8, <<23, 0>>)
        s2 == addAudioFrame(s1, 10, <<175, 0>>)
        s3 == addVideoFrame(s2, FrameType(<<23, 1>>), 12, <<23, 1>>)
        s4 == addVideoFrame(s3, FrameType(<<39, 1>>), 14, <<39, 1>>)
    IN  s4

InitFan ==
    /\ sessions = {1, 2}
    /\ sess = [s \in Sessions |->
                 IF s = 1
                 THEN [Connected("live") EXCEPT !.streamName = "a", !.isPublishing = TRUE]
                 ELSE IF s = 2 THEN Connected("live")
                 ELSE NoSession]
    /\ accepting = 0
    /\ channel = <<>>
    /\ streams = ("live/a" :> PrimedStream)
    /\ genCount = 1
    /\ outbox = [s \in Sessions |-> <<>>]
    /\ conn = [s \in Sessions |->
                 IF s = 1
                 THEN Log(WriteSetChunkSizeCalls \o Reply("_result")
                          \o Reply("NetStream.Publish.Start"))
                 ELSE IF s = 2 THEN Log(WriteSetChunkSizeCalls \o Reply("_result"))
                 ELSE <<>>]
    /\ tasks = {}
    /\ nextTask = 0
    /\ msgCount = 8
    /\ lastHandled = [s \in Sessions |->
                        IF s = 1 THEN Event("VideoData", 1, "live/a", "AVC NALU", <<39, 1>>, 14)
                        ELSE NoEvent(s)]
    /\ dropLog = {}
    /\ server = ServerStarted
    /\ codec = NoCodec

\* the live media of the publisher: H.264 inter frames and AAC frames
LiveVideo == { <<39, 1>> }
LiveAudio == { <<175, 1>> }

LiveBudget == msgCount < 8 + MaxLive

NextFan ==
    \/ LiveBudget /\ ~sess[2].isPlaying /\ handlePlay(2, "a")
    \/ \E data \in LiveVideo : LiveBudget /\ handleVideo(1, data)
    \/ \E data \in LiveAudio : LiveBudget /\ handleAudio(1, data)
    \/ eventLoop
    \/ \E t \in tasks : TaskStep(t)

SpecFan == InitFan /\ [][NextFan]_vars

\* the messages of a priming burst that stand on the connection of p, by the
\* first Write call of each
Burst(p) == SelectSeq(conn[p], LAMBDA e : e.m.src = "prime" /\ e.part = 1)

\* the place of a message in the priming order of the claim
PrimeRank(m) ==
    CASE m.what = "onMetaData" -> 0
      [] m.what = "AVC sequence header" -> 1
      [] m.what = "AAC sequence header" -> 2
      [] m.what = "audio" -> 4
      [] OTHER -> 3

Described(what, ts) == [what |-> what, ts |-> ts]

\* what a burst sends for a stream record, message by message
Expected(st) ==
    (IF st.lastMetadata # <<>> THEN << Described("onMetaData", 0) >> ELSE <<>>)
    \o [i \in 1..Len(st.videoSeqHdr) |->
          Described("AVC sequence header", st.videoSeqHdr[i].timestamp)]
    \o [i \in 1..Len(st.audioSeqHdr) |->
          Described("AAC sequence header", st.audioSeqHdr[i].timestamp)]
    \o [i \in 1..Len(st.gopFrames) |->
          Described(st.gopFrames[i].frameType, st.gopFrames[i].timestamp)]
    \o [i \in 1..Len(st.recentFrames) |->
          Described("audio", st.recentFrames[i].timestamp)]

\* the burst of player p is over
BurstOver(p) == \A t \in tasks : ~(t.kind = "prime" /\ t.player = p)

\* C5: a player that joins a path whose caches hold metadata, an AVC and an
\* AAC sequence header and a GOP is sent the metadata, the AVC header, the
\* AAC header and then the GOP frames in their original order: what stands
\* on its connection is in that order at every moment, and it is the whole
\* cache when the burst is over and the publisher has not changed the cache
C5_PrimingOrder ==
    \A p \in Sessions :
        LET b == Burst(p)
        IN  /\ \A i, j \in 1..Len(b) :
                  i < j => /\ PrimeRank(b[i].m) <= PrimeRank(b[j].m)
                           /\ PrimeRank(b[i].m) = PrimeRank(b[j].m) => b[i].m.ts < b[j].m.ts
            /\ \A path \in DOMAIN streams :
                  (/\ p \in streams[path].players
                   /\ BurstOver(p)
                   /\ sess[p].st = "open"
                   /\ [streams[path] EXCEPT !.players = {}] = PrimedStream)
                  => [i \in 1..Len(b) |-> Described(b[i].m.what, b[i].m.ts)]
                       = Expected(PrimedStream)

\* the player has been sent the whole burst: metadata, both headers, two frames
C5_Witness ==
    /\ BurstOver(2)
    /\ 2 \in streams["live/a"].players
    /\ Len(Burst(2)) = 5
    /\ [streams["live/a"] EXCEPT !.players = {}] = PrimedStream
    /\ Len(PrimedStream.gopFrames) = 2

\* C6: on a player's connection every frame of its priming burst stands
\* before every live frame the registry fanned out to it after it joined
C6_PrimingBeforeLive ==
    \A p \in Sessions : \A i, j \in 1..Len(conn[p]) :
        (i < j /\ conn[p][i].m.src = "live" /\ conn[p][j].m.src = "prime")
        => conn[p][i].m.id < conn[p][j].m.id

\* C8: the Write calls of one message are not interleaved with those of
\* another message on the same connection
C8_WritesSerialized ==
    \A p \in Sessions : \A i \in 1..Len(conn[p]) :
        /\ i = 1 => conn[p][i].part = 1
        /\ i > 1 => IF conn[p][i - 1].part = 3
                    THEN conn[p][i].part = 1
                    ELSE /\ conn[p][i].m = conn[p][i - 1].m
                         /\ conn[p][i].part = conn[p][i - 1].part + 1

(***************************************************************************)
(* Live fan-out to a player.  SpecLive starts where session 2 has played   *)
(* "a" on the publication of SpecFan and its priming burst is over.        *)
(***************************************************************************)
\* the Write calls of the burst of goroutine id for a stream record
BurstCalls(st, id) ==
    LET e == Expected(st)
        calls[i \in 0..Len(e)] ==
            IF i = 0 THEN <<>>
            ELSE calls[i - 1] \o WriteCalls(Msg("prime", e[i].what, e[i].ts, id))
    IN  calls[Len(e)]

InitLive ==
    /\ sessions = {1, 2}
    /\ sess = [s \in Sessions |->
                 IF s = 1
                 THEN [Connected("live") EXCEPT !.streamName = "a", !.isPublishing = TRUE]
                 ELSE IF s = 2
                 THEN [Connected("live") EXCEPT !.streamName = "a", !.isPlaying = TRUE]
                 ELSE NoSession]
    /\ accepting = 0
    /\ channel = <<>>
    /\ streams = ("live/a" :> [PrimedStream EXCEPT !.players = {2}])
    /\ genCount = 1
    /\ outbox = [s \in Sessions |-> <<>>]
    /\ conn = [s \in Sessions |->
                 IF s = 1
                 THEN Log(WriteSetChunkSizeCalls \o Reply("_result")
                          \o Reply("NetStream.Publish.Start"))
                 ELSE IF s = 2
                 THEN Log(WriteSetChunkSizeCalls \o Reply("_result")
                          \o Reply("NetStream.Play.Reset") \o Reply("NetStream.Play.Start")
                          \o BurstCalls(PrimedStream, 1))
                 ELSE <<>>]
    /\ tasks = {}
    /\ nextTask = 1
    /\ msgCount = 9
    /\ lastHandled = [s \in Sessions |->
                        IF s = 1 THEN Event("VideoData", 1, "live/a", "AVC NALU", <<39, 1>>, 14)
                        ELSE IF s = 2 THEN Event("PlayStarted", 2, "live/a", "", <<>>, 18)
                        ELSE NoEvent(s)]
    /\ dropLog = {}
    /\ server = ServerStarted
    /\ codec = NoCodec

FanBudget == msgCount < 9 + MaxFanned

NextLive ==
    \/ \E data \in LiveVideo : FanBudget /\ handleVideo(1, data)
    \/ \E data \in LiveAudio : FanBudget /\ handleAudio(1, data)
    \/ \E metadata \in MetaInputs : FanBudget /\ handleOnMetaData(1, metadata)
    \/ eventLoop
    \/ \E t \in tasks : TaskStep(t)

SpecLive == InitLive /\ [][NextLive]_vars

\* C7: on a player's connection the live frames stand in the order in which
\* the registry processed their events
C7_LiveInRegistryOrder ==
    \A p \in Sessions : \A i, j \in 1..Len(conn[p]) :
        (i < j /\ conn[p][i].m.src = "live" /\ conn[p][j].m.src = "live")
        => conn[p][i].m.id <= conn[p][j].m.id

(***************************************************************************)
(* The event channel under load.  SpecChan starts where session 1          *)
(* publishes "live/a" and has sent ChannelCap inter frames that the event  *)
(* loop has not received yet.                                              *)
(***************************************************************************)
\* the events of ChannelCap inter frames sent after the publish message
FullChannel ==
    [i \in 1..ChannelCap |->
        Event("VideoData", 1, "live/a", FrameType(<<34>>), <<34>>, 2 * (2 + i))]

InitChan ==
    /\ sessions = {1}
    /\ sess = [s \in Sessions |->
                 IF s = 1
                 THEN [Connected("live") EXCEPT !.streamName = "a", !.isPublishing = TRUE]
                 ELSE NoSession]
    /\ accepting = 0
    /\ channel = FullChannel
    /\ streams = ("live/a" :> NewStream(1))
    /\ genCount = 1
    /\ outbox = [s \in Sessions |-> <<>>]
    /\ conn = [s \in Sessions |->
                 IF s = 1
                 THEN Log(WriteSetChunkSizeCalls \o Reply("_result")
                          \o Reply("NetStream.Publish.Start"))
                 ELSE <<>>]
    /\ tasks = {}
    /\ nextTask = 0
    /\ msgCount = 2 + ChannelCap
    /\ lastHandled = [s \in Sessions |->
                        IF s = 1 THEN Event("PublishStarted", 1, "live/a", "", <<>>, 4)
                        ELSE NoEvent(s)]
    /\ dropLog = {}
    /\ server = ServerStarted
    /\ codec = NoCodec

BurstBudget == msgCount < 2 + ChannelCap + MaxBurst

\* the event loop is slow: it frees MaxDrain places of the channel at most
DrainBudget == Len(channel) > ChannelCap - MaxDrain

NextChan ==
    \/ \E data \in VideoInputs : BurstBudget /\ handleVideo(1, data)
    \/ \E data \in AudioInputs : BurstBudget /\ handleAudio(1, data)
    \/ \E metadata \in MetaInputs : BurstBudget /\ handleOnMetaData(1, metadata)
    \/ DrainBudget /\ eventLoop

SpecChan == InitChan /\ [][NextChan]_vars

\* an event that carries a sequence header or metadata
IsConfigEvent(d) ==
    \/ d.type = "MetaData"
    \/ d.type = "VideoData" /\ d.ft = "AVC sequence header"
    \/ d.type = "AudioData" /\ IsAACSequenceHeader(d.data)

\* C10: no event that carries an AVC sequence header, an AAC sequence header
\* or metadata is dropped, however full the event channel is
C10_ConfigEventsNeverDropped ==
    \A d \in dropLog : ~IsConfigEvent(d)

(***************************************************************************)
(* The player set of a path (specification Spec)                           *)
(***************************************************************************)
\* StreamConfig.MaxPlayersPerStream as the server is configured here
MaxPlayersPerStream == 1

\* the paths whose player set holds session s
PlayingOn(s) == {p \in DOMAIN streams : s \in streams[p].players}

\* C11: the player set of a path never holds more sessions than the
\* configured maximum of players per path
C11_PlayersWithinCap ==
    \A p \in DOMAIN streams : Cardinality(streams[p].players) <= MaxPlayersPerStream

\* C12: a session is in the player set of at most one path
C12_PlayerOnOnePath ==
    \A s \in Sessions : Cardinality(PlayingOn(s)) <= 1

(***************************************************************************)
(* The end of a session (specification Spec)                               *)
(***************************************************************************)
\* the reader of s has returned: its deferred cleanup ran and closed the
\* connection
ReaderExited(s) == sess[s].st = "closed" /\ outbox[s] = <<>>

\* a Terminated event of s waits in the channel or was handled
TerminatedSent(s) ==
    \/ \E i \in 1..Len(channel) : channel[i].type = "Terminated" /\ channel[i].sid = s
    \/ lastHandled[s].type = "Terminated"

\* C13: a session whose reader loop has ended and that has closed its
\* transport has sent SessionTerminated before, so that the registry removes
\* it from the identity map
C13_TerminatedBeforeClose ==
    \A s \in Sessions : ReaderExited(s) => TerminatedSent(s)

(***************************************************************************)
(* Shutdown (Server.Stop).  Stop runs in the goroutine that waits for the  *)
(* signal, beside the event loop, the accept loop and the readers.         *)
(* SpecStop starts where session 1 publishes "live/a" (as SpecGop does);   *)
(* a second client may connect, the publisher sends video, and the signal  *)
(* may arrive at any moment.                                               *)
(***************************************************************************)
\* video messages the publisher sends around the shutdown
MaxStopMsgs == 2

StopUnchanged ==
    UNCHANGED <<accepting, genCount, outbox, conn, tasks, nextTask, msgCount,
                lastHandled, dropLog, codec>>

\* Stop, step 1: s.cancel()
StopCancel ==
    /\ server.stop = "idle"
    /\ server' = [server EXCEPT !.stop = "cancelled", !.ctx = "done"]
    /\ UNCHANGED <<sessions, sess, channel, streams>>
    /\ StopUnchanged

\* Stop, step 2: s.listener.Close()
StopCloseListener ==
    /\ server.stop = "cancelled"
    /\ server' = [server EXCEPT !.stop = "closing", !.listener = "closed"]
    /\ UNCHANGED <<sessions, sess, channel, streams>>
    /\ StopUnchanged

\* the connection of s is open from the server's side
ConnOpen(s) == sess[s].st \in {"handshake", "open"}

\* Stop, step 3: session.conn.Close() for one session of s.sessions; the
\* reader of that session finds out at its next read or write
StopCloseSession(s) ==
    /\ server.stop = "closing"
    /\ s \in sessions
    /\ ConnOpen(s)
    /\ sess' = [sess EXCEPT ![s].st = "cut"]
    /\ UNCHANGED <<sessions, channel, streams, server>>
    /\ StopUnchanged

\* Stop, step 4: the range over s.sessions is over; RemovePublisher for
\* every stream
StopClearStreams ==
    /\ server.stop = "closing"
    /\ \A s \in sessions : ~ConnOpen(s)
    /\ streams' = [p \in DOMAIN streams |-> RemovePublisher(streams[p])]
    /\ server' = [server EXCEPT !.stop = "cleared"]
    /\ UNCHANGED <<sessions, sess, channel>>
    /\ StopUnchanged

\* Stop, step 5: both maps are replaced by empty ones
StopClearMaps ==
    /\ server.stop = "cleared"
    /\ sessions' = {}
    /\ streams' = << >>
    /\ server' = [server EXCEPT !.stop = "draining"]
    /\ UNCHANGED <<sess, channel>>
    /\ StopUnchanged

\* Stop, step 6: one event is taken from the channel and thrown away, or the
\* channel is found empty
StopDrain ==
    /\ server.stop = "draining"
    /\ IF channel # <<>>
       THEN channel' = Tail(channel) /\ UNCHANGED server
       ELSE server' = [server EXCEPT !.stop = "drained"] /\ UNCHANGED channel
    /\ UNCHANGED <<sessions, sess, streams>>
    /\ StopUnchanged

\* Stop, the end: close(s.channel)
StopCloseChannel ==
    /\ server.stop = "drained"
    /\ server' = [server EXCEPT !.stop = "done", !.closed = TRUE]
    /\ UNCHANGED <<sessions, sess, channel, streams>>
    /\ StopUnchanged

\* eventLoop: "case <-s.ctx.Done(): return"
eventLoopDone ==
    /\ server.loop
    /\ server.ctx = "done"
    /\ server' = [server EXCEPT !.loop = FALSE]
    /\ UNCHANGED <<sessions, sess, accepting, channel, streams, genCount, outbox,
                   conn, tasks, nextTask, msgCount, lastHandled,
                   dropLog, codec>>

\* handleRead: a read on a connection that Stop has closed returns an error
ReadClosed(s) ==
    /\ sess[s].st = "cut"
    /\ outbox[s] = <<>>
    /\ cleanup(s)
    /\ UNCHANGED <<sessions, accepting, streams, genCount, tasks, nextTask,
                   msgCount, lastHandled, codec>>

StopBudget == msgCount < 2 + MaxStopMsgs

\* a panic ends the program
Alive == ~server.panicked

NextStop ==
    \/ Alive /\ StopCancel
    \/ Alive /\ StopCloseListener
    \/ \E s \in Sessions : Alive /\ StopCloseSession(s)
    \/ Alive /\ StopClearStreams
    \/ Alive /\ StopClearMaps
    \/ Alive /\ StopDrain
    \/ Alive /\ StopCloseChannel
    \/ Alive /\ eventLoopDone
    \/ Alive /\ eventLoop
    \/ \E s \in Sessions : Alive /\ newSessionWithChannel(s)
    \/ Alive /\ storeSession
    \/ \E s \in Sessions : Alive /\ handshake(s, TRUE)
    \/ \E s \in Sessions : Alive /\ handshake(s, FALSE)
    \/ \E data \in VideoInputs : Alive /\ StopBudget /\ handleVideo(1, data)
    \/ \E s \in Sessions : Alive /\ ReaderStep(s)
    \/ \E s \in Sessions : Alive /\ ReadError(s)
    \/ \E s \in Sessions : Alive /\ ReadClosed(s)

SpecStop == InitGop /\ [][NextStop]_vars

\* the reader goroutine of s runs
ReaderRuns(s) == sess[s].st \in {"handshake", "open", "cut"}

\* C14: shutdown clears the registry and drains the event queue only after
\* the reader of every session has exited
C14_ClearAfterReadersExit ==
    server.stop \in {"draining", "drained", "done"} => \A s \in Sessions : ~ReaderRuns(s)

(***************************************************************************)
(* Cleanup run again.  SpecCleanup is the server with one client that      *)
(* sends commands (session 1) and clients that only open a connection;     *)
(* cleanup is applied once more to sessions whose reader has returned.     *)
(***************************************************************************)
\* runs of cleanup on one session
MaxCleanups == 2
\* commands session 1 sends
MaxCleanupMsgs == 3

\* cleanup applied to a session that was cleaned up before
cleanupAgain(s) ==
    /\ ReaderExited(s)
    /\ sess[s].cleanups < MaxCleanups
    /\ cleanup(s)
    /\ UNCHANGED <<sessions, accepting, streams, genCount, tasks, nextTask,
                   msgCount, lastHandled, codec>>

CleanupBudget == msgCount < MaxCleanupMsgs

NextCleanup ==
    \/ \E s \in Sessions : newSessionWithChannel(s)
    \/ storeSession
    \/ \E s \in Sessions : handshake(s, TRUE)
    \/ \E s \in Sessions : handshake(s, FALSE)
    \/ \E app \in AppNames : CleanupBudget /\ handleConnect(1, app)
    \/ \E key \in StreamKeys : CleanupBudget /\ handlePublish(1, key)
    \/ \E key \in StreamKeys : CleanupBudget /\ handlePlay(1, key)
    \/ CleanupBudget /\ handleCloseStream(1)
    \/ \E s \in Sessions : ReaderStep(s)
    \/ \E s \in Sessions : ReadError(s)
    \/ \E s \in Sessions : cleanupAgain(s)
    \/ eventLoop
    \/ \E t \in tasks : TaskStep(t)

SpecCleanup == Init /\ [][NextCleanup]_vars

\* this step begins a run of cleanup on s
CleanupRan(s) == sess'[s].cleanups = sess[s].cleanups + 1

\* C15: a run of cleanup on a session that was cleaned up before, or on a
\* session that is neither publishing nor playing, sends no event and
\* leaves the registry as it is
C15_CleanupIdempotent ==
    [][\A s \in Sessions :
          (/\ CleanupRan(s)
           /\ sess[s].cleanups >= 1 \/ (~sess[s].isPublishing /\ ~sess[s].isPlaying))
          => /\ channel' = channel
             /\ dropLog' = dropLog
             /\ streams' = streams
             /\ sessions' = sessions]_vars

\* a session that published a path was cleaned up twice
C15_Witness ==
    \E s \in Sessions :
        /\ sess[s].cleanups = 2
        /\ \/ lastHandled[s].type = "PublishStopped"
           \/ \E i \in 1..Len(channel) :
                 channel[i].type = "PublishStopped" /\ channel[i].sid = s

(***************************************************************************)
(* The publisher leaves.  SpecDetach starts where SpecLive starts: session *)
(* 1 publishes "live/a" with filled caches and session 2 plays it.  The    *)
(* publisher stops (FCUnpublish, closeStream, deleteStream or the end of   *)
(* its connection), the player may stop too.                               *)
(***************************************************************************)
\* messages the two sessions send while the publisher leaves
MaxDetachMsgs == 2

DetachBudget == msgCount < 9 + MaxDetachMsgs

NextDetach ==
    \/ DetachBudget /\ handleFCUnpublish(1)
    \/ \E s \in {1, 2} : DetachBudget /\ handleCloseStream(s)
    \/ DetachBudget /\ handleDeleteStream(1)
    \/ \E data \in LiveVideo : DetachBudget /\ handleVideo(1, data)
    \/ ReadError(1)
    \/ \E s \in Sessions : ReaderStep(s)
    \/ eventLoop
    \/ \E t \in tasks : TaskStep(t)

SpecDetach == InitLive /\ [][NextDetach]_vars

\* this step is the event loop handling event e
Handles(e) ==
    /\ channel # <<>>
    /\ e = Head(channel)
    /\ channel' = Tail(channel)
    /\ lastHandled' = [lastHandled EXCEPT ![e.sid] = e]

\* the caches of a stream record are empty
NoCaches(st) ==
    /\ st.lastMetadata = <<>>
    /\ st.videoSeqHdr = <<>>
    /\ st.audioSeqHdr = <<>>
    /\ st.gopFrames = <<>>

\* C16: when the registry detaches the publisher of a path (it handles a
\* PublishStopped), the path's cached metadata, AVC and AAC sequence headers
\* and GOP buffer are empty afterwards and its player set is what it was
C16_DetachClearsCachesKeepsPlayers ==
    [][\A e \in {Event("PublishStopped", s, p, "", <<>>, ts) :
                   s \in Sessions, p \in DOMAIN streams, ts \in 0..(2 * msgCount + 3)} :
          Handles(e)
          => IF e.name \in DOMAIN streams'
             THEN /\ NoCaches(streams'[e.name])
                  /\ streams'[e.name].players = streams[e.name].players
             ELSE streams[e.name].players = {}]_vars

\* the publisher of a path with filled caches and a player was detached
C16_Witness ==
    /\ lastHandled[1].type = "PublishStopped"
    /\ "live/a" \in DOMAIN streams
    /\ streams["live/a"].players = {2}
    /\ NoCaches(streams["live/a"])
    /\ ~NoCaches(PrimedStream)

(***************************************************************************)
(* A player comes and goes before any media.  SpecIdle starts where        *)
(* session 1 has published "live/a" and has sent no media yet, and         *)
(* session 2 has connected to "live".                                      *)
(***************************************************************************)
\* messages the two sessions send
MaxIdleMsgs == 2

InitIdle ==
    /\ sessions = {1, 2}
    /\ sess = [s \in Sessions |->
                 IF s = 1
                 THEN [Connected("live") EXCEPT !.streamName = "a", !.isPublishing = TRUE]
                 ELSE IF s = 2 THEN Connected("live")
                 ELSE NoSession]
    /\ accepting = 0
    /\ channel = <<>>
    /\ streams = ("live/a" :> NewStream(1))
    /\ genCount = 1
    /\ outbox = [s \in Sessions |-> <<>>]
    /\ conn = [s \in Sessions |->
                 IF s = 1
                 THEN Log(WriteSetChunkSizeCalls \o Reply("_result")
                          \o Reply("NetStream.Publish.Start"))
                 ELSE IF s = 2 THEN Log(WriteSetChunkSizeCalls \o Reply("_result"))
                 ELSE <<>>]
    /\ tasks = {}
    /\ nextTask = 0
    /\ msgCount = 3
    /\ lastHandled = [s \in Sessions |->
                        IF s = 1 THEN Event("PublishStarted", 1, "live/a", "", <<>>, 4)
                        ELSE NoEvent(s)]
    /\ dropLog = {}
    /\ server = ServerStarted
    /\ codec = NoCodec

IdleBudget == msgCount < 3 + MaxIdleMsgs

NextIdle ==
    \/ IdleBudget /\ ~sess[2].isPlaying /\ handlePlay(2, "a")
    \/ IdleBudget /\ handleCloseStream(2)
    \/ \E data \in LiveVideo : IdleBudget /\ handleVideo(1, data)
    \/ ReadError(2)
    \/ \E s \in Sessions : ReaderStep(s)
    \/ eventLoop
    \/ \E t \in tasks : TaskStep(t)

SpecIdle == InitIdle /\ [][NextIdle]_vars

\* path p has an attached publisher: a session that is publishing p, whose
\* PublishStarted or video for p is the last event of it the registry handled
HasPublisher(p) ==
    \E s \in sessions :
        /\ sess[s].isPublishing
        /\ GetFullStreamPath(s) = p
        /\ lastHandled[s].type \in {"PublishStarted", "VideoData"}
        /\ lastHandled[s].name = p

\* C17: the stream record of a path that has an attached publisher is in
\* the registry: a record is removed only when the path has no publisher
C17_PublishedPathKept ==
    \A s \in Sessions :
        HasPublisher(GetFullStreamPath(s)) => GetFullStreamPath(s) \in DOMAIN streams

(***************************************************************************)
(* Malformed input.  SpecInput starts where session 1 has completed the    *)
(* handshake; the peer sends chunks with any header format and AMF0        *)
(* command messages with any number of values.                             *)
(***************************************************************************)
\* chunks and command messages the peer sends
MaxInputs == 3

\* chunk stream ids and header formats of the chunks
ChunkStreamIds == {3, 4}
Fmts == 0..3

\* decoded AMF0 values: a type and, for strings and objects, the content
Str(v) == [t |-> "string", v |-> v]
Num == [t |-> "number", v |-> ""]
Null == [t |-> "null", v |-> ""]
Obj(app) == [t |-> "object", v |-> app]

\* what DecodeAMF0Sequence returns for the command payloads the peer sends
CommandInputs ==
    { <<>>,
      << Num >>,
      << Str("connect"), Num >>,
      << Str("connect"), Num, Obj("live") >>,
      << Str("publish"), Num, Null >>,
      << Str("publish"), Num, Null, Str("a") >>,
      << Str("play"), Num, Null >>,
      << Str("play"), Num, Null, Str("a") >>,
      << Str("deleteStream"), Num, Null >>,
      << Str("deleteStream"), Num, Null, Num >>,
      << Str("closeStream"), Num, Null >> }

\* the reader goroutine panics (index out of range, nil dereference); no
\* function of the program recovers, the process ends
Panic(s) ==
    /\ Reading(s)
    /\ msgCount' = msgCount + 1
    /\ server' = [server EXCEPT !.panicked = TRUE]
    /\ UNCHANGED <<sessions, sess, accepting, channel, streams, genCount, outbox,
                   conn, tasks, nextTask, lastHandled, dropLog, codec>>

\* the handler logs and returns
Ignore(s) == Read(s, sess[s], <<>>)

\* readChunk up to the message header: getMsgHeader returns nil for a chunk
\* stream without a stored header, readFmt0MessageHeader does not read it,
\* readFmt1/2/3MessageHeader dereference it; updateMsgHeader stores the result
readChunk(s, csid, fmt) ==
    IF fmt # 0 /\ csid \notin sess[s].headers
    THEN Panic(s)
    ELSE Read(s, [sess[s] EXCEPT !.headers = @ \cup {csid}], <<>>)

\* values[i] of the Go code is values[i + 1] here.  A handler returns when
\* len(values) < 3 and when a value has not the type it asserts; publish,
\* play and deleteStream then read values[3]
ReadsFourth(values) == IF Len(values) < 4 THEN "panic" ELSE values[4].t

\* handleAMF0Command with the handlers it dispatches to
handleAMF0Command(s, values) ==
    IF Len(values) = 0 THEN Panic(s)
    ELSE IF values[1].t # "string" THEN Ignore(s)
    ELSE LET name == values[1].v
         IN  IF name = "closeStream" THEN handleCloseStream(s)
             ELSE IF name \notin {"connect", "publish", "play", "deleteStream"}
             THEN Ignore(s)
             ELSE IF Len(values) < 3 THEN Ignore(s)
             ELSE IF name = "connect"
             THEN IF values[2].t # "number" \/ values[3].t # "object" THEN Ignore(s)
                  ELSE handleConnect(s, values[3].v)
             ELSE IF name = "deleteStream"
             THEN IF ReadsFourth(values) = "panic" THEN Panic(s)
                  ELSE IF ReadsFourth(values) # "number" THEN Ignore(s)
                  ELSE handleDeleteStream(s)
             ELSE IF values[2].t # "number" THEN Ignore(s)
             ELSE IF ReadsFourth(values) = "panic" THEN Panic(s)
             ELSE IF ReadsFourth(values) # "string" THEN Ignore(s)
             ELSE IF name = "publish" THEN handlePublish(s, values[4].v)
             ELSE handlePlay(s, values[4].v)

InitInput ==
    /\ sessions = {1}
    /\ sess = [s \in Sessions |-> IF s = 1 THEN [NoSession EXCEPT !.st = "open"] ELSE NoSession]
    /\ accepting = 0
    /\ channel = <<>>
    /\ streams = << >>
    /\ genCount = 0
    /\ outbox = [s \in Sessions |-> <<>>]
    /\ conn = [s \in Sessions |-> <<>>]
    /\ tasks = {}
    /\ nextTask = 0
    /\ msgCount = 0
    /\ lastHandled = [s \in Sessions |-> NoEvent(s)]
    /\ dropLog = {}
    /\ server = ServerStarted
    /\ codec = NoCodec

InputBudget == msgCount < MaxInputs

NextInput ==
    \/ \E csid \in ChunkStreamIds, fmt \in Fmts :
          Alive /\ InputBudget /\ readChunk(1, csid, fmt)
    \/ \E values \in CommandInputs :
          Alive /\ InputBudget /\ handleAMF0Command(1, values)
    \/ Alive /\ ReaderStep(1)
    \/ Alive /\ ReadError(1)
    \/ Alive /\ eventLoop
    \/ \E t \in tasks : Alive /\ TaskStep(t)

SpecInput == InitInput /\ [][NextInput]_vars

\* C18: no input of a peer makes a session goroutine panic
C18_NoPanicOnInput == ~server.panicked

(***************************************************************************)
(* FCUnpublish.  SpecUnpublish starts where SpecIdle starts: session 1     *)
(* publishes "live/a", session 2 has connected.  Either session may send   *)
(* FCUnpublish, session 2 may publish, session 1 may send video.           *)
(***************************************************************************)
\* messages the two sessions send
MaxUnpublishMsgs == 3

UnpublishBudget == msgCount < 3 + MaxUnpublishMsgs

NextUnpublish ==
    \/ \E s \in {1, 2} : UnpublishBudget /\ handleFCUnpublish(s)
    \/ \E key \in StreamKeys : UnpublishBudget /\ handlePublish(2, key)
    \/ \E data \in LiveVideo : UnpublishBudget /\ handleVideo(1, data)
    \/ eventLoop

SpecUnpublish == InitIdle /\ [][NextUnpublish]_vars

\* C19: when the registry processes the PublishStopped that a publishing
\* session sent on FCUnpublish, the path of the event has no publisher
\* afterwards
C19_UnpublishedPathHasNoPublisher ==
    [][\A e \in {Event("PublishStopped", s, p, "", <<>>, ts) :
                   s \in Sessions, p \in DOMAIN streams, ts \in 0..(2 * msgCount + 3)} :
          Handles(e)
          => {s \in sessions' : /\ lastHandled'[s].type = "PublishStarted"
                                /\ lastHandled'[s].name = e.name} = {}]_vars

(***************************************************************************)
(* The chunk size of the reader.  SpecConnect starts where session 1 has   *)
(* done its handshake; the peer sends connect, createStream, play and Set  *)
(* Chunk Size messages in any order.                                       *)
(***************************************************************************)
\* messages the peer sends
MaxConnectMsgs == 3

EXTENDED_TIMESTAMP_THRESHOLD == 16777215

\* Set Chunk Size messages of the peer: the length of the payload and the
\* 32-bit big-endian value of its first four bytes, as its highest bit and
\* the value of the other 31
ChunkSizeInputs ==
    { [len |-> 3, msb |-> 0, size |-> 0], [len |-> 4, msb |-> 1, size |-> 4096] } \cup
    { [len |-> 4, msb |-> 0, size |-> v] : v \in {0, 1, 128, 65536, 16777215, 16777216} }

\* handleSetChunkSize: a payload of another length, a value with the highest
\* bit set and a value outside 1..0xFFFFFF are logged, and the handler returns
handleSetChunkSize(s, in) ==
    IF in.len # 4 THEN Ignore(s)
    ELSE IF in.msb # 0 THEN Ignore(s)
    ELSE IF in.size < 1 \/ in.size > EXTENDED_TIMESTAMP_THRESHOLD THEN Ignore(s)
    ELSE Read(s, [sess[s] EXCEPT !.chunkSize = in.size, !.peerSetChunk = TRUE], <<>>)

ConnectBudget == msgCount < MaxConnectMsgs

NextConnect ==
    \/ \E app \in AppNames : ConnectBudget /\ handleConnect(1, app)
    \/ \E in \in ChunkSizeInputs : ConnectBudget /\ handleSetChunkSize(1, in)
    \/ ConnectBudget /\ handleCreateStream(1)
    \/ \E key \in StreamKeys : ConnectBudget /\ handlePlay(1, key)
    \/ ReaderStep(1)
    \/ ReadError(1)
    \/ eventLoop
    \/ \E t \in tasks : TaskStep(t)

SpecConnect == InitInput /\ [][NextConnect]_vars

\* the connection of s carries a complete Set Chunk Size message at place i
SetChunkSizeAt(s, i) ==
    conn[s][i].m.what = "SetChunkSize" /\ conn[s][i].part = 3

\* handleConnect has written Set Chunk Size to the connection of s
SetChunkSizeWritten(s) == \E i \in 1..Len(conn[s]) : SetChunkSizeAt(s, i)

\* a complete _result follows place i on the connection of s
ResultAfter(s, i) ==
    \E j \in (i + 1)..Len(conn[s]) :
        conn[s][j].m.what = "_result" /\ conn[s][j].part = 3

InvalidChunkSize(in) ==
    in.len # 4 \/ in.msb # 0 \/ in.size < 1 \/ in.size > EXTENDED_TIMESTAMP_THRESHOLD

\* C21: a step in which the reader handles a Set Chunk Size message with the
\* highest bit set or a value outside 1..16777215 leaves the chunk size of
\* the reader as it was and closes the session: the reader does not go on
\* to read the next message
C21_InvalidChunkSizeCloses ==
    [][\A in \in ChunkSizeInputs :
          InvalidChunkSize(in) /\ in.len = 4 /\ handleSetChunkSize(1, in)
          => /\ sess'[1].chunkSize = sess[1].chunkSize
             /\ ~(sess'[1].st = "open" /\ outbox'[1] = <<>>)]_vars

(***************************************************************************)
(* The handshake.  conn holds the RTMP messages written after the          *)
(* handshake; S0, S1 and S2 are not kept in it.                            *)
(***************************************************************************)
\* messages the peers send after the handshake
MaxHandshakeMsgs == 2

RTMP_VERSION == 3

\* what the connection does during the handshake: whether C0, C1 and C2
\* arrive in full, the byte C0, whether the writes of S0, S1 and S2 succeed
HandshakeSteps ==
    [readC0 : BOOLEAN, c0 : {RTMP_VERSION, 6}, writeS0 : BOOLEAN, writeS1 : BOOLEAN,
     readC1 : BOOLEAN, writeS2 : BOOLEAN, readC2 : BOOLEAN]

\* the steps that go wrong
Failing(in) ==
    {f \in {"readC0", "writeS0", "writeS1", "readC1", "writeS2", "readC2"} : ~in[f]}
    \cup (IF in.c0 # RTMP_VERSION THEN {"c0"} ELSE {})

\* the handshake ends at the first step that goes wrong: one step at most does
HandshakeInputs == {in \in HandshakeSteps : Cardinality(Failing(in)) <= 1}

\* handshake that does not wait for C2
handshakeErrorNoC2(in) ==
    IF ~in.readC0 THEN "failed to read C0"
    ELSE IF in.c0 # RTMP_VERSION THEN "unsupported RTMP version"
    ELSE IF ~in.writeS0 THEN "failed to write S0"
    ELSE IF ~in.writeS1 THEN "failed to write S1"
    ELSE IF ~in.readC1 THEN "failed to read C1"
    ELSE IF ~in.writeS2 THEN "failed to write S2"
    ELSE ""

\* handshake: the error it returns, "" for nil
handshakeError(in) ==
    IF ~in.readC0 THEN "failed to read C0"
    ELSE IF in.c0 # RTMP_VERSION THEN "unsupported RTMP version"
    ELSE IF ~in.writeS0 THEN "failed to write S0"
    ELSE IF ~in.writeS1 THEN "failed to write S1"
    ELSE IF ~in.readC1 THEN "failed to read C1"
    ELSE IF ~in.writeS2 THEN "failed to write S2"
    ELSE IF ~in.readC2 THEN "failed to read C2"
    ELSE ""

\* handleRead up to its loop: handshake(s.conn), and on an error the return
\* with the deferred cleanup and close
handleReadHandshake(s, in) == handshake(s, handshakeError(in) = "")

HandshakeBudget == msgCount < MaxHandshakeMsgs

NextHandshake ==
    \/ \E s \in Sessions : newSessionWithChannel(s)
    \/ storeSession
    \/ \E s \in Sessions, in \in HandshakeInputs : handleReadHandshake(s, in)
    \/ \E s \in Sessions, app \in AppNames : HandshakeBudget /\ handleConnect(s, app)
    \/ \E s \in Sessions : HandshakeBudget /\ handleCreateStream(s)
    \/ \E s \in Sessions, key \in StreamKeys : HandshakeBudget /\ handlePublish(s, key)
    \/ \E s \in Sessions : ReadError(s)
    \/ \E s \in Sessions : ReaderStep(s)
    \/ eventLoop

SpecHandshake == Init /\ [][NextHandshake]_vars

\* every step of the handshake goes well
AllStepsDone(in) ==
    /\ in.readC0 /\ in.c0 = 3
    /\ in.writeS0 /\ in.writeS1 /\ in.writeS2
    /\ in.readC1 /\ in.readC2

\* C22: the handshake of a session succeeds (the session goes on to read
\* messages) exactly when C0 is read and is 3, S0, S1 and S2 are written and
\* C1 and C2 are read in full; when a step fails the session is cleaned up
\* and closed without an event, a reply or a message read, and a closed
\* session never changes again
C22_HandshakeFailureIsFatal ==
    [][\A s \in Sessions :
          /\ \A in \in HandshakeInputs :
                handleReadHandshake(s, in)
                => IF AllStepsDone(in)
                   THEN sess'[s].st = "open" /\ sess'[s].cleanups = 0
                   ELSE /\ sess'[s].st = "closed"
                        /\ sess'[s].cleanups = 1
                        /\ channel' = channel
                        /\ conn' = conn
                        /\ msgCount' = msgCount
          /\ sess[s].st = "closed"
                => /\ sess'[s] = sess[s]
                   /\ conn'[s] = conn[s]
                   /\ outbox'[s] = <<>>]_vars

\* one session failed its handshake and is closed, another one did its
\* handshake and has had a message handled
C22_Witness ==
    \E s, t \in Sessions :
        /\ sess[s].st = "closed" /\ sess[s].cleanups = 1 /\ conn[s] = <<>>
        /\ sess[s].chunkSize = DefaultChunkSize
        /\ sess[t].st = "open" /\ sess[t].appName # ""

(***************************************************************************)
(* The chunk codec: messageWriter and messageReader on bytes.  A uint32 is *)
(* kept as its two 16-bit halves, so that its arithmetic is exact modulo   *)
(* 2^32.                                                                   *)
(***************************************************************************)
U32(hi, lo) == [hi |-> hi, lo |-> lo]

\* the uint32 of a number below 2^31
Word(n) == U32(n \div 65536, n % 65536)

\* a + b in uint32
Add32(a, b) ==
    LET lo == a.lo + b.lo
    IN  U32((a.hi + b.hi + lo \div 65536) % 65536, lo % 65536)

\* a < b in uint32
Less32(a, b) == a.hi < b.hi \/ (a.hi = b.hi /\ a.lo < b.lo)

Min(a, b) == IF a < b THEN a ELSE b

\* PutUint24: the three low bytes of v, big endian
PutUint24(v) == << v.hi % 256, v.lo \div 256, v.lo % 256 >>

\* readUint24BE
readUint24BE(buf) == U32(buf[1], buf[2] * 256 + buf[3])

\* binary.LittleEndian.PutUint32 and binary.LittleEndian.Uint32
PutUint32LE(v) == << v.lo % 256, v.lo \div 256, v.hi % 256, v.hi \div 256 >>
Uint32LE(buf) == U32(buf[4] * 256 + buf[3], buf[2] * 256 + buf[1])

\* binary.BigEndian.Uint32
Uint32BE(buf) == U32(buf[1] * 256 + buf[2], buf[3] * 256 + buf[4])

\* newMessageHeader, newBasicHeader, NewChunk, NewMessage; a *messageHeader is
\* <<>> for nil and a sequence of one header otherwise
newMessageHeader(timestamp, length, typeId, streamId) ==
    [Timestamp |-> timestamp, length |-> length, typeId |-> typeId,
     streamId |-> streamId]

newBasicHeader(fmt, chunkStreamID) == [fmt |-> fmt, chunkStreamID |-> chunkStreamID]

NewChunk(basicHdr, msgHdr, payload) ==
    [basicHeader |-> basicHdr, messageHeader |-> msgHdr, payload |-> payload]

NewMessage(header, payload) == [messageHeader |-> header, payload |-> payload]

\* getChunkStreamIDForMessageType
getChunkStreamIDForMessageType(messageType) ==
    IF messageType \in {1, 2, 3, 4, 5, 6} THEN 2
    ELSE IF messageType = 8 THEN 4
    ELSE IF messageType = 9 THEN 5
    ELSE IF messageType \in {18, 15} THEN 6
    ELSE 3

\* extractPayloadSlice: size bytes from place offset of the slices of payload
RECURSIVE extractLoop(_, _, _, _, _, _)
extractLoop(payload, offset, currentOffset, startFound, remaining, result) ==
    IF payload = <<>> THEN result
    ELSE LET chunk == Head(payload)
             chunkLen == Len(chunk)
         IN  IF ~startFound /\ currentOffset + chunkLen <= offset
             THEN extractLoop(Tail(payload), offset, currentOffset + chunkLen,
                              FALSE, remaining, result)
             ELSE LET startIdx == IF startFound THEN 0 ELSE offset - currentOffset
                      copyLen == Min(chunkLen - startIdx, remaining)
                      res == result \o SubSeq(chunk, startIdx + 1, startIdx + copyLen)
                  IN  IF remaining - copyLen <= 0 THEN res
                      ELSE extractLoop(Tail(payload), offset, currentOffset + chunkLen,
                                       TRUE, remaining - copyLen, res)

extractPayloadSlice(payload, offset, size) ==
    IF size = 0 THEN <<>> ELSE extractLoop(payload, offset, 0, FALSE, size, <<>>)

\* buildFirstChunk: fmt 0; the header carries 0xFFFFFF for a timestamp from
\* 0xFFFFFF on
buildFirstChunk(msg, offset, chunkSize, totalPayloadLength) ==
    LET ts == msg.messageHeader.Timestamp
        headerTimestamp == IF ~Less32(ts, Word(EXTENDED_TIMESTAMP_THRESHOLD))
                           THEN Word(EXTENDED_TIMESTAMP_THRESHOLD) ELSE ts
        chunkStreamID == getChunkStreamIDForMessageType(msg.messageHeader.typeId)
    IN  NewChunk(newBasicHeader(0, chunkStreamID),
                 << newMessageHeader(headerTimestamp, totalPayloadLength,
                                     msg.messageHeader.typeId,
                                     msg.messageHeader.streamId) >>,
                 IF chunkSize > 0
                 THEN extractPayloadSlice(msg.payload, offset, chunkSize) ELSE <<>>)

\* buildContinuationChunk: fmt 3, no message header
buildContinuationChunk(msg, offset, chunkSize) ==
    NewChunk(newBasicHeader(3, getChunkStreamIDForMessageType(msg.messageHeader.typeId)),
             <<>>, extractPayloadSlice(msg.payload, offset, chunkSize))

RECURSIVE TotalLength(_)
TotalLength(payload) ==
    IF payload = <<>> THEN 0 ELSE Len(Head(payload)) + TotalLength(Tail(payload))

\* buildChunks
RECURSIVE buildChunksFrom(_, _, _, _)
buildChunksFrom(mw, msg, offset, totalPayloadLength) ==
    IF offset >= totalPayloadLength THEN <<>>
    ELSE LET chunkSize == Min(totalPayloadLength - offset, mw.chunkSize)
         IN  << IF offset = 0
                THEN buildFirstChunk(msg, offset, chunkSize, totalPayloadLength)
                ELSE buildContinuationChunk(msg, offset, chunkSize) >>
             \o buildChunksFrom(mw, msg, offset + chunkSize, totalPayloadLength)

buildChunks(mw, msg) ==
    IF TotalLength(msg.payload) = 0
    THEN << buildFirstChunk(msg, 0, 0, 0) >>
    ELSE buildChunksFrom(mw, msg, 0, TotalLength(msg.payload))

\* writeBasicHeader: one byte, (fmt << 6) | byte(chunkStreamID); the chunk
\* stream ids of the writer are below 64
writeBasicHeader(bh) == << ((bh.fmt * 64) % 256) + bh.chunkStreamID >>

\* writeMessageHeader: 11 bytes
writeMessageHeader(mh) ==
    PutUint24(mh.Timestamp) \o PutUint24(Word(mh.length)) \o << mh.typeId >>
    \o PutUint32LE(mh.streamId)

\* writeChunk: basic header, message header unless nil, payload; no extended
\* timestamp is written
writeChunk(chunk) ==
    writeBasicHeader(chunk.basicHeader)
    \o (IF chunk.messageHeader # <<>>
        THEN writeMessageHeader(chunk.messageHeader[1]) ELSE <<>>)
    \o chunk.payload

\* writeMessage: the bytes of every chunk in turn
RECURSIVE writeChunks(_)
writeChunks(chunks) ==
    IF chunks = <<>> THEN <<>> ELSE writeChunk(Head(chunks)) \o writeChunks(Tail(chunks))

writeMessage(mw, msg) == writeChunks(buildChunks(mw, msg))

\* the value of a uint32 below 2^31
Num32(v) == v.hi * 65536 + v.lo

\* what a read function returns: an error or a value, and the bytes that
\* follow in the reader; io.ReadFull fails when the bytes are not there
Fail(e) == [err |-> e, v |-> <<>>, rest |-> <<>>]
Ok(v, rest) == [err |-> "", v |-> v, rest |-> rest]
Drop(r, n) == SubSeq(r, n + 1, Len(r))

\* readBasicHeader
readBasicHeader(r) ==
    IF Len(r) < 1 THEN Fail("EOF")
    ELSE LET format == r[1] \div 64
             firstByte == r[1] % 64
         IN  IF firstByte = 0
             THEN IF Len(r) < 2 THEN Fail("failed to read 2-byte basic header")
                  ELSE IF 64 + r[2] > 319 THEN Fail("invalid chunk stream ID")
                  ELSE Ok(newBasicHeader(format, 64 + r[2]), Drop(r, 2))
             ELSE IF firstByte = 1
             THEN IF Len(r) < 3 THEN Fail("failed to read 3-byte basic header")
                  ELSE LET chunkStreamId == 64 + r[2] + 256 * r[3]
                       IN  IF chunkStreamId < 320 \/ chunkStreamId > 65599
                           THEN Fail("invalid chunk stream ID")
                           ELSE Ok(newBasicHeader(format, chunkStreamId), Drop(r, 3))
             ELSE IF firstByte < 2 THEN Fail("invalid chunk stream ID")
             ELSE Ok(newBasicHeader(format, firstByte), Drop(r, 1))

\* readExtendedTimestamp
readExtendedTimestamp(r) ==
    IF Len(r) < 4 THEN Fail("EOF") ELSE Ok(Uint32BE(SubSeq(r, 1, 4)), Drop(r, 4))

\* the 3-byte timestamp field at the head of r, replaced by the extended
\* timestamp that follows n header bytes when the field is 0xFFFFFF
TimestampField(r, n) ==
    LET field == readUint24BE(SubSeq(r, 1, 3))
    IN  IF field = Word(EXTENDED_TIMESTAMP_THRESHOLD)
        THEN readExtendedTimestamp(Drop(r, n))
        ELSE Ok(field, Drop(r, n))

\* readFmt0MessageHeader: a timestamp below the one of the previous header of
\* the chunk stream is replaced by that one plus 1, unless the previous one is
\* from 0xF0000000 on and the new one is 0x10000000 at most
readFmt0MessageHeader(r, header) ==
    IF Len(r) < 11 THEN Fail("EOF")
    ELSE LET ts == TimestampField(r, 11)
             length == Num32(readUint24BE(SubSeq(r, 4, 6)))
             typeId == r[7]
             streamId == Uint32LE(SubSeq(r, 8, 11))
             timestamp ==
                 IF /\ header # <<>>
                    /\ Less32(ts.v, header[1].Timestamp)
                    /\ \/ Less32(header[1].Timestamp, U32(61440, 0))
                       \/ Less32(U32(4096, 0), ts.v)
                 THEN Add32(header[1].Timestamp, Word(1))
                 ELSE ts.v
         IN  IF ts.err # "" THEN ts
             ELSE Ok(newMessageHeader(timestamp, length, typeId, streamId), ts.rest)

\* the timestamp readFmt1MessageHeader and readFmt2MessageHeader compute: the
\* previous one plus the delta in uint32; when that sum is below the previous
\* one and the delta is below 0x80000000 and not 0, the previous one plus 1
newTimestamp(previous, timestampDelta) ==
    LET sum == Add32(previous, timestampDelta)
    IN  IF /\ timestampDelta # Word(0)
           /\ Less32(sum, previous)
           /\ Less32(timestampDelta, U32(32768, 0))
        THEN Add32(previous, Word(1))
        ELSE sum

\* readFmt1MessageHeader: header is dereferenced after the reads
readFmt1MessageHeader(r, header) ==
    IF Len(r) < 7 THEN Fail("EOF")
    ELSE LET delta == TimestampField(r, 7)
         IN  IF delta.err # "" THEN delta
             ELSE IF header = <<>> THEN Fail("panic")
             ELSE Ok(newMessageHeader(newTimestamp(header[1].Timestamp, delta.v),
                                      Num32(readUint24BE(SubSeq(r, 4, 6))), r[7],
                                      header[1].streamId),
                     delta.rest)

\* readFmt2MessageHeader
readFmt2MessageHeader(r, header) ==
    IF Len(r) < 3 THEN Fail("EOF")
    ELSE LET delta == TimestampField(r, 3)
         IN  IF delta.err # "" THEN delta
             ELSE IF header = <<>> THEN Fail("panic")
             ELSE Ok(newMessageHeader(newTimestamp(header[1].Timestamp, delta.v),
                                      header[1].length, header[1].typeId,
                                      header[1].streamId),
                     delta.rest)

\* readFmt3MessageHeader: a copy of the previous header, nothing is read
readFmt3MessageHeader(r, header) ==
    IF header = <<>> THEN Fail("panic") ELSE Ok(header[1], r)

\* readMessageHeader
readMessageHeader(r, fmt, header) ==
    IF fmt = 0 THEN readFmt0MessageHeader(r, header)
    ELSE IF fmt = 1 THEN readFmt1MessageHeader(r, header)
    ELSE IF fmt = 2 THEN readFmt2MessageHeader(r, header)
    ELSE readFmt3MessageHeader(r, header)

\* readPayload
readPayload(r, size) ==
    IF Len(r) < size THEN Fail("EOF") ELSE Ok(SubSeq(r, 1, size), Drop(r, size))

\* newMessageReaderContext: the three maps are empty
newMessageReaderContext ==
    [messageHeaders |-> << >>, payloads |-> << >>, payloadLengths |-> << >>,
     chunkSize |-> DefaultChunkSize]

\* getMsgHeader, updateMsgHeader, appendPayload
getMsgHeader(ctx, chunkStreamId) ==
    IF chunkStreamId \in DOMAIN ctx.messageHeaders
    THEN << ctx.messageHeaders[chunkStreamId] >> ELSE <<>>

updateMsgHeader(ctx, chunkStreamId, messageHeader) ==
    [ctx EXCEPT !.messageHeaders = (chunkStreamId :> messageHeader) @@ @]

appendPayload(ctx, chunkStreamId, payload) ==
    LET had == chunkStreamId \in DOMAIN ctx.payloads
        slices == IF had THEN ctx.payloads[chunkStreamId] ELSE <<>>
        length == IF chunkStreamId \in DOMAIN ctx.payloadLengths
                  THEN ctx.payloadLengths[chunkStreamId] ELSE 0
    IN  [ctx EXCEPT !.payloads = (chunkStreamId :> Append(slices, payload)) @@ @,
                    !.payloadLengths = (chunkStreamId :> length + Len(payload)) @@ @]

\* nextChunkSize without the bytes that remain of the message: every chunk is
\* taken to carry a whole chunk size
nextChunkSizeWhole(ctx, chunkStreamId) ==
    IF chunkStreamId \notin DOMAIN ctx.messageHeaders THEN 0 ELSE ctx.chunkSize

\* nextChunkSize: header.length - currentLength is a uint32, a difference
\* below 0 is above every chunk size
nextChunkSize(ctx, chunkStreamId) ==
    IF chunkStreamId \notin DOMAIN ctx.messageHeaders THEN 0
    ELSE LET currentLength == IF chunkStreamId \in DOMAIN ctx.payloadLengths
                              THEN ctx.payloadLengths[chunkStreamId] ELSE 0
             remain == ctx.messageHeaders[chunkStreamId].length - currentLength
         IN  IF remain < 0 \/ remain > ctx.chunkSize THEN ctx.chunkSize ELSE remain

\* the chunk streams popMessageIfPossible can return a message of.  One at
\* most is complete: a message is popped after every chunk, and a chunk
\* changes the header and the payload of its own chunk stream only
Complete(ctx) ==
    {c \in DOMAIN ctx.messageHeaders :
        /\ c \in DOMAIN ctx.payloadLengths
        /\ c \in DOMAIN ctx.payloads
        /\ ctx.payloadLengths[c] = ctx.messageHeaders[c].length}

Without(f, c) == [k \in DOMAIN f \ {c} |-> f[k]]

\* popMessageIfPossible
popMessageIfPossible(ctx) ==
    IF Complete(ctx) = {} THEN [err |-> "no complete message available", ctx |-> ctx,
                                msg |-> <<>>]
    ELSE LET c == CHOOSE c \in Complete(ctx) : TRUE
         IN  [err |-> "",
              ctx |-> [ctx EXCEPT !.payloads = Without(@, c),
                                  !.payloadLengths = Without(@, c)],
              msg |-> << NewMessage(ctx.messageHeaders[c], ctx.payloads[c]) >>]

\* messageReader.readChunk on the bytes r: the context afterwards, the bytes
\* left, the chunk stream of the chunk
readChunkFrom(ctx, r) ==
    LET bh == readBasicHeader(r)
        csid == bh.v.chunkStreamID
        mh == readMessageHeader(bh.rest, bh.v.fmt, getMsgHeader(ctx, csid))
        ctx1 == updateMsgHeader(ctx, csid, mh.v)
        pl == readPayload(mh.rest, nextChunkSize(ctx1, csid))
    IN  IF bh.err # "" THEN [err |-> bh.err, ctx |-> ctx, rest |-> <<>>]
        ELSE IF mh.err # "" THEN [err |-> mh.err, ctx |-> ctx, rest |-> <<>>]
        ELSE IF pl.err # "" THEN [err |-> pl.err, ctx |-> ctx1, rest |-> <<>>]
        ELSE [err |-> "", ctx |-> appendPayload(ctx1, csid, pl.v), rest |-> pl.rest]

\* readNextMessage: chunks are read until a message is complete
RECURSIVE readNextMessage(_, _)
readNextMessage(ctx, r) ==
    LET chunk == readChunkFrom(ctx, r)
        popped == popMessageIfPossible(chunk.ctx)
    IN  IF chunk.err # ""
        THEN [err |-> chunk.err, ctx |-> chunk.ctx, msg |-> <<>>, rest |-> <<>>]
        ELSE IF popped.err = ""
        THEN [err |-> "", ctx |-> popped.ctx, msg |-> popped.msg, rest |-> chunk.rest]
        ELSE readNextMessage(chunk.ctx, chunk.rest)

(***************************************************************************)
(* Round trip.  SpecCodec gives a writer and a reader the same chunk size; *)
(* the writer encodes a message onto the wire, the reader decodes it.      *)
(***************************************************************************)
\* messages written in one behaviour
MaxCodecMsgs == 1

\* the variables of the server, which the codec leaves alone
serverVars == <<sessions, sess, accepting, channel, streams, genCount, outbox, conn,
                tasks, nextTask, msgCount, lastHandled, dropLog, server>>

ChunkSizes == {128, 4096, 65536}

\* 0, 1000, 0xFFFFFE, 0xFFFFFF, 0x1000000, 0xFFFFFFFF
TimestampInputs ==
    {Word(0), Word(1000), Word(16777214), Word(16777215), Word(16777216),
     U32(65535, 65535)}

\* payload lengths for chunk size c: none, one byte, one chunk, one chunk and
\* a byte, two chunks, two chunks and a byte
PayloadLengths(c) == {0, 1, c, c + 1, 2 * c, 2 * c + 1}

\* n payload bytes
Bytes(n) == [i \in 1..n |-> (i * 7) % 251]

\* the payload of n bytes in one slice, and in two slices when n > 1
Payloads(n) ==
    { << Bytes(n) >> } \cup
    (IF n > 1 THEN { << SubSeq(Bytes(n), 1, n \div 3), SubSeq(Bytes(n), n \div 3 + 1, n) >> }
     ELSE {})

\* audio and command messages on message streams 0 and 1
MessageInputs(c) ==
    UNION { { NewMessage(newMessageHeader(ts, n, typeId, streamId), payload) :
                ts \in TimestampInputs, typeId \in {8, 20},
                streamId \in {Word(0), Word(1)}, payload \in Payloads(n) } :
            n \in PayloadLengths(c) }

InitCodec ==
    /\ sessions = {}
    /\ sess = [s \in Sessions |-> NoSession]
    /\ accepting = 0
    /\ channel = <<>>
    /\ streams = << >>
    /\ genCount = 0
    /\ outbox = [s \in Sessions |-> <<>>]
    /\ conn = [s \in Sessions |-> <<>>]
    /\ tasks = {}
    /\ nextTask = 0
    /\ msgCount = 0
    /\ lastHandled = [s \in Sessions |-> NoEvent(s)]
    /\ dropLog = {}
    /\ server = ServerStarted
    /\ \E c \in ChunkSizes :
          codec = [writer |-> [chunkSize |-> c],
                   reader |-> [newMessageReaderContext EXCEPT !.chunkSize = c],
                   wire |-> <<>>, sent |-> <<>>, got |-> <<>>]

\* the writer writes message msg to the wire
MoreToEncode == Len(codec.sent) < MaxCodecMsgs

Encode(msg) ==
    /\ MoreToEncode
    /\ codec' = [codec EXCEPT !.wire = @ \o writeMessage(codec.writer, msg),
                              !.sent = Append(@, msg)]
    /\ UNCHANGED serverVars

\* the reader reads the next message from the wire
Decode ==
    /\ codec.wire # <<>>
    /\ LET read == readNextMessage(codec.reader, codec.wire)
       IN  codec' = [codec EXCEPT !.reader = read.ctx,
                                 !.wire = read.rest,
                                 !.got = Append(@, [err |-> read.err, msg |-> read.msg])]
    /\ UNCHANGED serverVars

NextCodec ==
    \/ MoreToEncode /\ \E msg \in MessageInputs(codec.writer.chunkSize) : Encode(msg)
    \/ Decode

SpecCodec == InitCodec /\ [][NextCodec]_vars

RECURSIVE Flatten(_)
Flatten(payload) ==
    IF payload = <<>> THEN <<>> ELSE Head(payload) \o Flatten(Tail(payload))

\* message a is message b in timestamp, length, type id, stream id and
\* payload bytes
SameMessage(a, b) ==
    /\ a.messageHeader = b.messageHeader
    /\ Flatten(a.payload) = Flatten(b.payload)

\* C23: the i-th message the reader decodes is, without an error, the i-th
\* message the writer encoded, in timestamp, length, type id, stream id and
\* payload bytes, for the chunk sizes 128, 4096 and 65536 and payloads of
\* no byte up to two chunks and a byte
C23_ChunkRoundTrip ==
    \A i \in 1..Len(codec.got) :
        /\ codec.got[i].err = ""
        /\ SameMessage(codec.got[i].msg[1], codec.sent[i])

(***************************************************************************)
(* Timestamp deltas.  In SpecDelta a peer sends, on chunk stream 4, a      *)
(* one-byte audio message with a fmt 0 header and then messages with fmt 1 *)
(* and fmt 2 headers; the reader decodes them.                             *)
(***************************************************************************)
\* messages with a fmt 1 or fmt 2 header the peer sends
MaxDeltas == 3

\* binary.BigEndian.PutUint32 as the peer does it
PutUint32BE(v) == << v.hi \div 256, v.hi % 256, v.lo \div 256, v.lo % 256 >>

\* the timestamp field of a chunk the peer sends, and the extended timestamp
\* it puts behind the header for a value from 0xFFFFFF on
PeerField(v) ==
    IF Less32(v, Word(EXTENDED_TIMESTAMP_THRESHOLD))
    THEN PutUint24(v) ELSE PutUint24(Word(EXTENDED_TIMESTAMP_THRESHOLD))

PeerExtended(v) ==
    IF Less32(v, Word(EXTENDED_TIMESTAMP_THRESHOLD)) THEN <<>> ELSE PutUint32BE(v)

\* the bytes of a one-chunk message of the peer on chunk stream csid with a
\* header of format fmt: v is the timestamp (fmt 0) or the delta (fmt 1, 2)
PeerChunk(fmt, csid, v, typeId, streamId, payload) ==
    << fmt * 64 + csid >>
    \o PeerField(v)
    \o (IF fmt <= 1 THEN PutUint24(Word(Len(payload))) \o << typeId >> ELSE <<>>)
    \o (IF fmt = 0 THEN PutUint32LE(streamId) ELSE <<>>)
    \o PeerExtended(v)
    \o payload

\* 0, 1000, 0x7FFFFFFF, 0xFFFFFFF0, 0xFFFFFFFF
FirstTimestamps ==
    {Word(0), Word(1000), U32(32767, 65535), U32(65535, 65520), U32(65535, 65535)}

\* 0, 1, 40, 0xFFFFFF, 0x80000000
Deltas == {Word(0), Word(1), Word(40), Word(16777215), U32(32768, 0)}

InitDelta ==
    /\ sessions = {}
    /\ sess = [s \in Sessions |-> NoSession]
    /\ accepting = 0
    /\ channel = <<>>
    /\ streams = << >>
    /\ genCount = 0
    /\ outbox = [s \in Sessions |-> <<>>]
    /\ conn = [s \in Sessions |-> <<>>]
    /\ tasks = {}
    /\ nextTask = 0
    /\ msgCount = 0
    /\ lastHandled = [s \in Sessions |-> NoEvent(s)]
    /\ dropLog = {}
    /\ server = ServerStarted
    /\ codec = [writer |-> [chunkSize |-> DefaultChunkSize],
                reader |-> newMessageReaderContext,
                wire |-> <<>>, sent |-> <<>>, got |-> <<>>]

\* the peer sends its first message, with a fmt 0 header and timestamp t0
PeerFirst(t0) ==
    /\ codec.sent = <<>>
    /\ codec' = [codec EXCEPT
                   !.wire = @ \o PeerChunk(0, 4, t0, 8, Word(1), << 175 >>),
                   !.sent = Append(@, [fmt |-> 0, v |-> t0])]
    /\ UNCHANGED serverVars

\* the peer sends a message with a fmt 1 or fmt 2 header and delta d
PeerNext(fmt, d) ==
    /\ codec.sent # <<>>
    /\ Len(codec.sent) <= MaxDeltas
    /\ codec' = [codec EXCEPT
                   !.wire = @ \o PeerChunk(fmt, 4, d, 8, Word(1), << 175 >>),
                   !.sent = Append(@, [fmt |-> fmt, v |-> d])]
    /\ UNCHANGED serverVars

NextDelta ==
    \/ \E t0 \in FirstTimestamps : PeerFirst(t0)
    \/ \E fmt \in {1, 2}, d \in Deltas : PeerNext(fmt, d)
    \/ Decode

SpecDelta == InitDelta /\ [][NextDelta]_vars

\* t0 + d1 + ... + d(i-1) modulo 2^32 for the first i messages of the peer
RECURSIVE RunningSum(_, _)
RunningSum(sent, i) ==
    IF i = 1 THEN sent[1].v ELSE Add32(RunningSum(sent, i - 1), sent[i].v)

\* C24: the i-th message decoded on the chunk stream has the timestamp
\* t0 + d1 + ... + d(i-1) modulo 2^32, where t0 is the timestamp of the fmt 0
\* header and d1, d2, ... are the deltas of the fmt 1 and fmt 2 headers
C24_DeltaAccumulation ==
    \A i \in 1..Len(codec.got) :
        /\ codec.got[i].err = ""
        /\ codec.got[i].msg[1].messageHeader.Timestamp = RunningSum(codec.sent, i)

(***************************************************************************)
(* Extended timestamp, checked in SpecCodec on the bytes the writer        *)
(* produces for a message and on what the reader takes from them.          *)
(***************************************************************************)
\* the first chunk of a message as written: basic header (one byte for the
\* chunk streams the writer uses), 11-byte message header, then what follows
FirstChunkField(bytes) == readUint24BE(SubSeq(bytes, 2, 4))
AfterHeader(bytes) == Drop(bytes, 12)

\* the first n elements of a sequence
Prefix(seq, n) == SubSeq(seq, 1, Min(n, Len(seq)))

\* C25: the writer puts 0xFFFFFF into the timestamp field exactly for a
\* timestamp from 0xFFFFFF on, and then the four bytes of the timestamp
\* follow the header, while for a smaller timestamp the payload follows the
\* header; the reader takes four bytes more than the header exactly when the
\* field is 0xFFFFFF
C25_ExtendedTimestamp ==
    \A i \in 1..Len(codec.sent) :
        LET msg == codec.sent[i]
            ts == msg.messageHeader.Timestamp
            bytes == writeMessage(codec.writer, msg)
            extended == ~Less32(ts, Word(EXTENDED_TIMESTAMP_THRESHOLD))
            marked == FirstChunkField(bytes) = Word(EXTENDED_TIMESTAMP_THRESHOLD)
            first == Prefix(Flatten(msg.payload), codec.writer.chunkSize)
            read == readFmt0MessageHeader(Drop(bytes, 1), <<>>)
        IN  /\ marked <=> extended
            /\ extended => Prefix(AfterHeader(bytes), 4) = PutUint32BE(ts)
            /\ extended => Prefix(Drop(bytes, 16), Len(first)) = first
            /\ ~extended => Prefix(AfterHeader(bytes), Len(first)) = first
            /\ read.err = "" =>
                   Len(read.rest) = Len(bytes) - 12 - (IF marked THEN 4 ELSE 0)

(***************************************************************************)
(* Chunk stream ids.  In SpecBasic a peer sends one-chunk messages whose   *)
(* basic header carries the chunk stream id in the 1-byte, the 2-byte or   *)
(* the 3-byte form, and the reader reads the chunks.                       *)
(***************************************************************************)
\* chunks the peer sends in one behaviour
MaxBasicMsgs == 2

\* the basic header of the peer in the form of 1, 2 or 3 bytes
PeerBasicHeader(form, fmt, csid) ==
    IF form = 1 THEN << fmt * 64 + csid >>
    ELSE IF form = 2 THEN << fmt * 64, csid - 64 >>
    ELSE << fmt * 64 + 1, (csid - 64) % 256, (csid - 64) \div 256 >>

\* the chunk stream ids each form can carry, at the ends of its range
CsidInputs ==
    {[form |-> 1, csid |-> c] : c \in {2, 3, 63}}
    \cup {[form |-> 2, csid |-> c] : c \in {64, 65, 319}}
    \cup {[form |-> 3, csid |-> c] : c \in {64, 319, 320, 65599}}

\* the form of the fewest bytes for a chunk stream id
MinimumForm(csid) == IF csid <= 63 THEN 1 ELSE IF csid <= 319 THEN 2 ELSE 3

\* the peer sends a one-byte audio message in one chunk with a fmt 0 header
PeerSends(in) ==
    /\ Len(codec.sent) < MaxBasicMsgs
    /\ \A i \in 1..Len(codec.got) : codec.got[i].err = ""
    /\ codec' = [codec EXCEPT
                   !.wire = @ \o PeerBasicHeader(in.form, 0, in.csid)
                              \o Tail(PeerChunk(0, 2, Word(0), 8, Word(1), << 175 >>)),
                   !.sent = Append(@, in)]
    /\ UNCHANGED serverVars

\* messageReader.readChunk and the pop of the message the chunk completes:
\* the chunk stream id is the one of the basic header that was read
ReadChunk ==
    /\ codec.wire # <<>>
    /\ LET bh == readBasicHeader(codec.wire)
           read == readNextMessage(codec.reader, codec.wire)
       IN  codec' = [codec EXCEPT
                       !.reader = read.ctx,
                       !.wire = read.rest,
                       !.got = Append(@, [err |-> read.err,
                                          csid |-> IF bh.err = ""
                                                   THEN bh.v.chunkStreamID ELSE 0])]
    /\ UNCHANGED serverVars

NextBasic ==
    \/ \E in \in CsidInputs : PeerSends(in)
    \/ ReadChunk

SpecBasic == InitDelta /\ [][NextBasic]_vars

\* C26: the i-th chunk is read without an error and with the chunk stream id
\* the peer encoded, whichever of the forms that can carry the id the peer
\* chose, and the id is neither 0 nor 1
C26_CsidForms ==
    \A i \in 1..Len(codec.got) :
        /\ codec.got[i].err = ""
        /\ codec.got[i].csid = codec.sent[i].csid
        /\ codec.got[i].csid \notin {0, 1}

(***************************************************************************)
(* Media of a session that does not publish.  SpecMedia starts where       *)
(* SpecIdle starts: session 1 publishes "live/a", session 2 has connected. *)
(* Session 1 may stop publishing with FCUnpublish, closeStream or          *)
(* deleteStream and publish again, session 2 may play and stop, and both   *)
(* may send audio and video at any time.  A peer sends closeStream and     *)
(* deleteStream for a stream it publishes or plays.  The goroutines that   *)
(* write to the player are left waiting: they touch no session field and   *)
(* send no event.                                                          *)
(***************************************************************************)
\* messages the two sessions send
MaxMediaMsgs == 3

MediaBudget == msgCount < 3 + MaxMediaMsgs

HasStream(s) == sess[s].isPublishing \/ sess[s].isPlaying

NextMedia ==
    \/ \E s \in {1, 2}, data \in LiveAudio : MediaBudget /\ handleAudio(s, data)
    \/ \E s \in {1, 2}, data \in LiveVideo : MediaBudget /\ handleVideo(s, data)
    \/ MediaBudget /\ handleFCUnpublish(1)
    \/ \E s \in {1, 2} : MediaBudget /\ HasStream(s) /\ handleCloseStream(s)
    \/ \E s \in {1, 2} : MediaBudget /\ HasStream(s) /\ handleDeleteStream(s)
    \/ MediaBudget /\ ~sess[1].isPublishing /\ handlePublish(1, "a")
    \/ MediaBudget /\ ~sess[2].isPlaying /\ handlePlay(2, "a")
    \/ \E s \in Sessions : ReaderStep(s)
    \/ eventLoop

SpecMedia == InitIdle /\ [][NextMedia]_vars

\* the AudioData and VideoData events of session s in a queue
MediaEvents(ch, s) ==
    {i \in 1..Len(ch) : ch[i].sid = s /\ ch[i].type \in {"AudioData", "VideoData"}}

\* C27: a step that puts an AudioData or VideoData event of a session into
\* the event queue is a step of a session that is publishing, and an audio
\* or video message read by a session that is not publishing leaves the
\* event queue as it is and the session open
C27_MediaOnlyWhilePublishing ==
    [][\A s \in Sessions :
          /\ Cardinality(MediaEvents(channel', s)) > Cardinality(MediaEvents(channel, s))
             => sess[s].isPublishing
          /\ (/\ ~sess[s].isPublishing
              /\ \/ \E data \in LiveAudio : handleAudio(s, data)
                 \/ \E data \in LiveVideo : handleVideo(s, data))
             => /\ channel' = channel
                /\ dropLog' = dropLog
                /\ sess'[s] = sess[s]]_vars

\* session 1 stopped publishing with its fourth message, which left the one
\* event in the queue; the fifth message was read and changed nothing: it was
\* audio or video of a session that does not publish
C27_Witness ==
    /\ msgCount = 5
    /\ channel = << Event("PublishStopped", 1, "live/a", "", <<>>, 8) >>
    /\ ~sess[1].isPublishing /\ sess[1].st = "open" /\ outbox[1] = <<>>
    /\ sess[2] = Connected("live")
    /\ conn[2] = Log(WriteSetChunkSizeCalls \o Reply("_result"))
    /\ lastHandled[2] = NoEvent(2)

(***************************************************************************)
(* PublishStopped of a session that is not the publisher.  SpecRival       *)
(* starts where SpecIdle starts: session 1 is the publisher of "live/a",   *)
(* session 2 has connected.  Session 1 goes on publishing throughout: it   *)
(* sends video.  Session 2 may send publish for the same or another key,   *)
(* and then FCUnpublish, closeStream or deleteStream, or its connection    *)
(* may end.                                                                *)
(***************************************************************************)
\* messages the two sessions send
MaxRivalMsgs == 3

RivalBudget == msgCount < 3 + MaxRivalMsgs

\* AVC sequence header, key frame
RivalVideo == { <<23, 0>>, <<23, 1>> }

NextRival ==
    \/ \E data \in RivalVideo : RivalBudget /\ handleVideo(1, data)
    \/ \E key \in StreamKeys : RivalBudget /\ handlePublish(2, key)
    \/ RivalBudget /\ handleFCUnpublish(2)
    \/ RivalBudget /\ handleCloseStream(2)
    \/ RivalBudget /\ handleDeleteStream(2)
    \/ ReadError(2)
    \/ \E s \in Sessions : ReaderStep(s)
    \/ eventLoop

SpecRival == InitIdle /\ [][NextRival]_vars

\* C28: session 1 is the publisher of "live/a" and session 2 is not; when
\* the registry handles a PublishStopped of session 2 for "live/a", the
\* record of the path stays in the registry with the caches it had
C28_StrangerCannotDetach ==
    [][\A e \in {Event("PublishStopped", 2, "live/a", "", <<>>, ts) :
                   ts \in 0..(2 * msgCount + 3)} :
          Handles(e)
          => /\ "live/a" \in DOMAIN streams'
             /\ streams'["live/a"] = streams["live/a"]]_vars

(***************************************************************************)
(* Role events under load.  SpecQueue starts where session 1 publishes     *)
(* "live/b", session 2 plays "live/a" and is in its player set, and        *)
(* session 1 has sent ChannelCap inter frames that the event loop has not  *)
(* received yet.  Session 2 may send closeStream or its connection may     *)
(* end; session 1 may send more video.  The event loop and the readers are *)
(* goroutines that run whenever they can: FairSpecQueue has weak fairness  *)
(* for them.                                                               *)
(***************************************************************************)
\* messages the two sessions send
MaxQueueMsgs == 2

\* the events of ChannelCap inter frames of session 1, its messages 5, 6, ...
QueuedFrames ==
    [i \in 1..ChannelCap |->
        Event("VideoData", 1, "live/b", FrameType(<<34>>), <<34>>, 2 * (4 + i))]

InitQueue ==
    /\ sessions = {1, 2}
    /\ sess = [s \in Sessions |->
                 IF s = 1
                 THEN [Connected("live") EXCEPT !.streamName = "b", !.isPublishing = TRUE]
                 ELSE IF s = 2
                 THEN [Connected("live") EXCEPT !.streamName = "a", !.isPlaying = TRUE]
                 ELSE NoSession]
    /\ accepting = 0
    /\ channel = QueuedFrames
    /\ streams = ("live/b" :> NewStream(1))
                 @@ ("live/a" :> [NewStream(2) EXCEPT !.players = {2}])
    /\ genCount = 2
    /\ outbox = [s \in Sessions |-> <<>>]
    /\ conn = [s \in Sessions |->
                 IF s = 1
                 THEN Log(WriteSetChunkSizeCalls \o Reply("_result")
                          \o Reply("NetStream.Publish.Start"))
                 ELSE IF s = 2
                 THEN Log(WriteSetChunkSizeCalls \o Reply("_result")
                          \o Reply("NetStream.Play.Reset") \o Reply("NetStream.Play.Start"))
                 ELSE <<>>]
    /\ tasks = {}
    /\ nextTask = 1
    /\ msgCount = 4 + ChannelCap
    /\ lastHandled = [s \in Sessions |->
                        IF s = 1 THEN Event("PublishStarted", 1, "live/b", "", <<>>, 4)
                        ELSE IF s = 2 THEN Event("PlayStarted", 2, "live/a", "", <<>>, 8)
                        ELSE NoEvent(s)]
    /\ dropLog = {}
    /\ server = ServerStarted
    /\ codec = NoCodec

QueueBudget == msgCount < 4 + ChannelCap + MaxQueueMsgs

NextQueue ==
    \/ QueueBudget /\ handleVideo(1, <<34>>)
    \/ QueueBudget /\ handleCloseStream(2)
    \/ ReadError(2)
    \/ \E s \in Sessions : ReaderStep(s)
    \/ eventLoop

SpecQueue == InitQueue /\ [][NextQueue]_vars

FairSpecQueue ==
    /\ SpecQueue
    /\ WF_vars(eventLoop)
    /\ \A s \in Sessions : WF_vars(ReaderStep(s))

\* the player sets hold the sessions whose isPlaying flag is set, each on
\* its own path
PlayersAgree ==
    \A s \in Sessions : \A p \in {"live/a", "live/b"} :
        (p \in DOMAIN streams /\ s \in streams[p].players)
        <=> (sess[s].isPlaying /\ GetFullStreamPath(s) = p)

\* C29: whenever the event queue is empty and no reader is inside a handler
\* the player sets agree with the isPlaying flags of the sessions, and a
\* session that has terminated is eventually in no player set
C29_RoleEventsProcessed ==
    /\ []((channel = <<>> /\ \A s \in Sessions : outbox[s] = <<>>) => PlayersAgree)
    /\ \A s \in Sessions :
          (sess[s].st = "closed") ~> (\A p \in DOMAIN streams : s \notin streams[p].players)

(***************************************************************************)
(* Events after shutdown, checked in SpecStop.                             *)
(***************************************************************************)
\* C30: once Stop has closed the event channel no step of a session sends on
\* it: a send on the closed channel is a panic of the sending goroutine
C30_NoSendOnClosedChannel ==
    [][server.closed => server'.panicked = server.panicked]_vars

(***************************************************************************)
(* What a priming burst reads, checked in SpecFan.  The caches of          *)
(* "live/a" only grow there (the publisher sends inter frames and AAC      *)
(* frames, fewer than the caches hold), and a frame carries the ordinal of *)
(* its message, so the record a player was attached to is the present      *)
(* record without the frames of later messages.                            *)
(***************************************************************************)
\* the frames of a cache that stood in it before the message of ordinal ts
Before(frames, ts) == SelectSeq(frames, LAMBDA f : f.timestamp < ts)

\* the record of path when the registry handled the PlayStarted of player p
AtAttach(path, p) ==
    [streams[path] EXCEPT !.gopFrames = Before(@, lastHandled[p].ts),
                          !.recentFrames = Before(@, lastHandled[p].ts)]

\* C31: the priming burst a player has been sent is what the caches of its
\* path held when the registry attached it: no goroutine reads the record
\* after the registry has gone on to change it
C31_BurstIsCacheAtAttach ==
    \A p \in Sessions :
        (/\ "live/a" \in DOMAIN streams
         /\ p \in streams["live/a"].players
         /\ lastHandled[p].type = "PlayStarted"
         /\ BurstOver(p)
         /\ sess[p].st = "open")
        => LET b == Burst(p)
           IN  [i \in 1..Len(b) |-> Described(b[i].m.what, b[i].m.ts)]
                 = Expected(AtAttach("live/a", p))

(***************************************************************************)
(* Registration of a session, checked in Spec.                             *)
(***************************************************************************)
\* the event loop handles the event at the head of the channel
HandlesHead == channel # <<>> /\ channel' = Tail(channel) /\ lastHandled' # lastHandled

\* C32: the session of every event the event loop handles is in
\* Server.sessions: a session is stored there before its reader can send
C32_EventFindsSession ==
    [][HandlesHead => Head(channel).sid \in sessions]_vars

(***************************************************************************)
(* Who touches Server.sessions, checked in SpecStop.                       *)
(***************************************************************************)
\* a step of the accept loop or of Stop that writes Server.sessions or
\* ranges over it
OutsideAccess ==
    \/ storeSession
    \/ \E s \in Sessions : StopCloseSession(s)
    \/ StopClearMaps

\* C33: the accept loop and Stop do not write or read Server.sessions while
\* the event loop goroutine runs
C33_SessionsOwnedByEventLoop ==
    [][OutsideAccess => ~server.loop]_vars

(***************************************************************************)
(* A keyframe starts the GOP buffer anew, checked in SpecGop.              *)
(***************************************************************************)
\* a VideoData event that carries a keyframe: frame class 1, and not the
\* AVC sequence header, which has the same first byte as an H.264 keyframe
KeyframeEvent(e) ==
    e.type = "VideoData" /\ IsKeyframe(e.data) /\ e.ft # "AVC sequence header"

\* C34: when the event loop has handled a VideoData event with a keyframe,
\* H.264 keyframes (0x17 0x01) included, the GOP buffer of the path is that
\* frame and nothing else
C34_KeyframeRestartsGop ==
    [][(HandlesHead /\ KeyframeEvent(Head(channel)))
       => LET e == Head(channel)
          IN  /\ e.name \in DOMAIN streams'
              /\ streams'[e.name].gopFrames = << Frame(e.ft, e.ts, e.data) >>]_vars

(***************************************************************************)
(* The play command, checked in SpecPlay: session 2 of InitIdle plays, and *)
(* plays again while it is attached as a player, so that the writes of the *)
(* second handler are steps of their own.  Only session 2 reads, so        *)
(* msgCount - 3 is the number of play commands read.                       *)
(***************************************************************************)
MaxPlays == 3

PlaysRead == msgCount - 3

NextPlay ==
    \/ \E key \in {"a", "b"} : PlaysRead < MaxPlays /\ handlePlay(2, key)
    \/ ReaderStep(2)
    \/ \E t \in tasks : TaskStep(t)
    \/ eventLoop

SpecPlay == InitIdle /\ [][NextPlay]_vars

\* the Write calls of the play notifications on the connection of s
PlayReplies(s) ==
    SelectSeq(conn[s], LAMBDA w : w.m.what \in {"NetStream.Play.Reset",
                                                "NetStream.Play.Start"})

\* the i-th Write call of play notifications, when every play command sends
\* NetStream.Play.Reset and then NetStream.Play.Start, three Write calls each
PlayReplyAt(i) ==
    [m |-> Msg("reply", IF ((i - 1) % 6) < 3 THEN "NetStream.Play.Reset"
                        ELSE "NetStream.Play.Start", 0, 0),
     part |-> ((i - 1) % 3) + 1]

\* a step that puts a PlayStarted event of s into the event queue
EmitsPlayStarted(s) ==
    /\ Len(channel') = Len(channel) + 1
    /\ channel'[Len(channel')].type = "PlayStarted"
    /\ channel'[Len(channel')].sid = s

\* a step with which the handler of s returns
HandlerReturns(s) ==
    /\ msgCount' # msgCount \/ outbox'[s] # outbox[s]
    /\ outbox'[s] = <<>>

EventsSent(s) ==
    {channel'[i].type : i \in (Len(channel) + 1)..Len(channel')}
    \cup {outbox'[s][i].m.type : i \in {j \in 1..Len(outbox'[s]) : outbox'[s][j].op = "emit"}}

\* C36: closeStream and deleteStream send PublishStopped exactly when the
\* session's isPublishing is set and PlayStopped exactly when its isPlaying is
\* set, and leave both flags cleared, so that a cleanup after them has no
\* stop event to send
C36_StopEventsFollowRole ==
    [][\A s \in Sessions :
          (handleCloseStream(s) \/ handleDeleteStream(s))
          => /\ ("PublishStopped" \in EventsSent(s)) <=> sess[s].isPublishing
             /\ ("PlayStopped" \in EventsSent(s)) <=> sess[s].isPlaying
             /\ ~sess'[s].isPublishing
             /\ ~sess'[s].isPlaying]_vars

\* C37: a publish or play command read by a session without app name leaves
\* isPublishing and isPlaying as they were, sends no PublishStarted and no
\* PlayStarted, and leaves the session open
C37_NoAppNoRole ==
    [][\A s \in Sessions :
          (/\ sess[s].appName = ""
           /\ \E key \in StreamKeys : handlePublish(s, key) \/ handlePlay(s, key))
          => /\ sess'[s].isPublishing = sess[s].isPublishing
             /\ sess'[s].isPlaying = sess[s].isPlaying
             /\ EventsSent(s) \cap {"PublishStarted", "PlayStarted"} = {}
             /\ sess'[s].st = "open"]_vars

(***************************************************************************)
(* onMetaData on any session, checked in SpecMeta: session 1 of InitIdle   *)
(* publishes live/a, session 2 is idle and may play live/a, and both may   *)
(* send onMetaData script messages.  Every handler here runs in one step:  *)
(* session 2 plays once, while nothing else writes to its connection.      *)
(***************************************************************************)
MaxMetaMsgs == 3

MetaBudget == msgCount < 3 + MaxMetaMsgs

AnyMeta == MetaInputs \cup { <<640, 480>> }

NextMeta ==
    \/ \E s \in {1, 2}, metadata \in AnyMeta : MetaBudget /\ handleOnMetaData(s, metadata)
    \/ MetaBudget /\ ~sess[2].isPlaying /\ handlePlay(2, "a")
    \/ \E t \in tasks : TaskStep(t)
    \/ eventLoop

SpecMeta == InitIdle /\ [][NextMeta]_vars

\* C38: an onMetaData script message read by a session that is not
\* publishing sends no MetaData event, so the registry neither replaces the
\* cached metadata of a path nor fans anything out on its account
C38_MetadataOnlyFromPublisher ==
    [][\A s \in Sessions :
          (/\ ~sess[s].isPublishing
           /\ \E metadata \in AnyMeta : handleOnMetaData(s, metadata))
          => "MetaData" \notin EventsSent(s)]_vars
(***************************************************************************)
(* Audio of a publisher with a player attached, checked in SpecAudio: the  *)
(* publisher of InitLive sends AAC sequence headers and AAC frames.        *)
(***************************************************************************)
MaxAudioMsgs == 3

AudioBudget == msgCount < 9 + MaxAudioMsgs

NextAudio ==
    \/ \E data \in AudioInputs : AudioBudget /\ handleAudio(1, data)
    \/ eventLoop
    \/ \E t \in tasks : TaskStep(t)

SpecAudio == InitLive /\ [][NextAudio]_vars

\* C39: when the event loop has handled an AudioData event with an AAC
\* sequence header, the header is the stored AAC decoder config of the path,
\* the GOP buffer and the recent audio frames are as before, and no send to
\* a player has been started
C39_AacHeaderOnlyStored ==
    [][(/\ HandlesHead
        /\ Head(channel).type = "AudioData"
        /\ IsAACSequenceHeader(Head(channel).data)
        /\ Head(channel).name \in DOMAIN streams)
       => LET e == Head(channel)
          IN  /\ streams'[e.name].audioSeqHdr
                   = << Frame("AAC sequence header", e.ts, e.data) >>
              /\ streams'[e.name].gopFrames = streams[e.name].gopFrames
              /\ streams'[e.name].recentFrames = streams[e.name].recentFrames
              /\ tasks' \subseteq tasks]_vars

(***************************************************************************)
(* Reassembly, checked in SpecChunks.  A peer sends audio messages on the  *)
(* chunk streams 3 and 4, a chunk at a time and the chunks of the two in   *)
(* any order, and Set Chunk Size messages on chunk stream 2 in between.    *)
(* The reader takes every chunk as it comes (readChunk), pops the message  *)
(* the chunk completes (popMessageIfPossible) and handles a Set Chunk Size *)
(* message before it reads on (handleRead).  The peer cuts its messages by *)
(* the chunk size it has announced.                                        *)
(***************************************************************************)
\* messages the peer begins, and Set Chunk Size messages it sends
MaxChunkMsgs == 2
MaxSizeChanges == 1

MediaChunkStreams == {3, 4}

\* declared lengths: none, a byte, a default chunk, a chunk and a byte, more
\* than two chunks
MessageLengths == {0, 1, 128, 129, 300}

\* chunk sizes the peer announces
NewChunkSizes == {100, 200}

\* the n payload bytes of a message on chunk stream csid
Body(csid, n) == [i \in 1..n |-> (i * 7 + csid) % 251]

\* the peer: its chunk size, and for each chunk stream the declared length of
\* its last message and the bytes of it not yet sent
NoPeer ==
    [chunkSize |-> DefaultChunkSize,
     length |-> [c \in MediaChunkStreams |-> 0],
     rem |-> [c \in MediaChunkStreams |-> 0],
     started |-> {}, begun |-> 0, changes |-> 0]

InitChunks ==
    /\ sessions = {}
    /\ sess = [s \in Sessions |-> NoSession]
    /\ accepting = 0
    /\ channel = <<>>
    /\ streams = << >>
    /\ genCount = 0
    /\ outbox = [s \in Sessions |-> <<>>]
    /\ conn = [s \in Sessions |-> <<>>]
    /\ tasks = {}
    /\ nextTask = 0
    /\ msgCount = 0
    /\ lastHandled = [s \in Sessions |-> NoEvent(s)]
    /\ dropLog = {}
    /\ server = ServerStarted
    /\ codec = [writer |-> NoPeer, reader |-> newMessageReaderContext,
                wire |-> <<>>, sent |-> <<>>, got |-> <<>>]

\* the first chunk of a message: fmt 0 header with timestamp 0, the declared
\* length, the type and message stream 1, then the payload of the chunk
PeerFirstChunk(csid, length, typeId, payload) ==
    << csid >> \o PutUint24(Word(0)) \o PutUint24(Word(length)) \o << typeId >>
    \o PutUint32LE(Word(1)) \o payload

\* a later chunk: fmt 3, no message header
PeerLaterChunk(csid, payload) == << 192 + csid >> \o payload

\* the payload length accumulated for a chunk stream
Accumulated(ctx, csid) ==
    IF csid \in DOMAIN ctx.payloadLengths THEN ctx.payloadLengths[csid] ELSE 0

\* handleSetChunkSize on a message the reader returned
setChunkSizeFrom(ctx, msg) ==
    LET size == Uint32BE(msg.payload[1])
    IN  IF Len(msg.payload[1]) # 4 THEN ctx
        ELSE IF size.hi >= 32768 THEN ctx
        ELSE IF Num32(size) < 1 \/ Num32(size) > EXTENDED_TIMESTAMP_THRESHOLD THEN ctx
        ELSE [ctx EXCEPT !.chunkSize = Num32(size)]

\* the payload of the message a chunk the peer sent belongs to
SentBody(s) ==
    IF s.csid = 2 THEN PutUint32BE(Word(s.size)) ELSE Body(s.csid, s.length)

\* the switch of handleRead on what popMessageIfPossible gave for a chunk:
\* the reader context the next chunk is read with
AfterMessage(chunk, popped) ==
    IF chunk.err # "" \/ popped.err # "" THEN chunk.ctx
    ELSE IF popped.msg[1].messageHeader.typeId = 1
    THEN setChunkSizeFrom(popped.ctx, popped.msg[1])
    ELSE popped.ctx

\* what one round of the loop did: the error, the message if one is returned,
\* the chunk size and the accumulated length the chunk was read with, the
\* bytes the chunk added and the bytes it left unread, the accumulator after
Round(csid, chunk, popped, ctx) ==
    [err |-> chunk.err,
     msg |-> IF chunk.err = "" THEN popped.msg ELSE <<>>,
     size |-> codec.reader.chunkSize,
     before |-> Accumulated(codec.reader, csid),
     took |-> Accumulated(chunk.ctx, csid) - Accumulated(codec.reader, csid),
     left |-> Len(chunk.rest),
     kept |-> csid \in DOMAIN ctx.payloads,
     after |-> Accumulated(ctx, csid)]

Handled(chunk, popped, ctx, peer, sent) ==
    /\ codec' = [codec EXCEPT !.writer = peer,
                              !.reader = ctx,
                              !.sent = Append(@, sent),
                              !.got = Append(@, Round(sent.csid, chunk, popped, ctx))]
    /\ UNCHANGED serverVars

Popped(chunk, popped, peer, sent) ==
    Handled(chunk, popped, AfterMessage(chunk, popped), peer, sent)

\* one round of the loop of readNextMessage on the bytes of one chunk, and
\* the switch of handleRead on the message if there is one; sent is what the
\* peer knows of the chunk
Receives(bytes, peer, sent) ==
    Popped(readChunkFrom(codec.reader, bytes),
           popMessageIfPossible(readChunkFrom(codec.reader, bytes).ctx), peer, sent)

\* the peer begins a message of n bytes on chunk stream csid
PeerBegins(csid, n) ==
    LET p == codec.writer
        k == Min(p.chunkSize, n)
    IN  /\ p.rem[csid] = 0
        /\ p.begun < MaxChunkMsgs
        /\ Receives(PeerFirstChunk(csid, n, 8, SubSeq(Body(csid, n), 1, k)),
                    [p EXCEPT !.length[csid] = n, !.rem[csid] = n - k,
                              !.started = @ \cup {csid}, !.begun = @ + 1],
                    [fmt |-> 0, csid |-> csid, length |-> n, size |-> 0])

\* the peer begins a message with the header of the one before on the chunk
\* stream: a fmt 3 chunk
PeerRepeats(csid) ==
    LET p == codec.writer
        n == p.length[csid]
        k == Min(p.chunkSize, n)
    IN  /\ p.rem[csid] = 0
        /\ csid \in p.started
        /\ p.begun < MaxChunkMsgs
        /\ Receives(PeerLaterChunk(csid, SubSeq(Body(csid, n), 1, k)),
                    [p EXCEPT !.rem[csid] = n - k, !.begun = @ + 1],
                    [fmt |-> 3, csid |-> csid, length |-> n, size |-> 0])

\* the peer sends the next chunk of the message it has begun on csid
PeerContinues(csid) ==
    LET p == codec.writer
        n == p.length[csid]
        done == n - p.rem[csid]
        k == Min(p.chunkSize, p.rem[csid])
    IN  /\ p.rem[csid] > 0
        /\ Receives(PeerLaterChunk(csid, SubSeq(Body(csid, n), done + 1, done + k)),
                    [p EXCEPT !.rem[csid] = @ - k],
                    [fmt |-> 3, csid |-> csid, length |-> n, size |-> 0])

\* the peer sends Set Chunk Size on chunk stream 2 and cuts by the new size
\* from then on
PeerSetsChunkSize(c) ==
    LET p == codec.writer
    IN  /\ p.changes < MaxSizeChanges
        /\ c # p.chunkSize
        /\ Receives(PeerFirstChunk(2, 4, 1, PutUint32BE(Word(c))),
                    [p EXCEPT !.chunkSize = c, !.changes = @ + 1],
                    [fmt |-> 0, csid |-> 2, length |-> 4, size |-> c])

NextChunks ==
    \/ \E csid \in MediaChunkStreams, n \in MessageLengths : PeerBegins(csid, n)
    \/ \E csid \in MediaChunkStreams : PeerRepeats(csid)
    \/ \E csid \in MediaChunkStreams : PeerContinues(csid)
    \/ \E c \in NewChunkSizes : PeerSetsChunkSize(c)

SpecChunks == InitChunks /\ [][NextChunks]_vars

\* C40: every chunk is read without an error and adds min(chunk size of the
\* reader, declared length - accumulated) bytes to the accumulator of its
\* chunk stream; a message is returned with the chunk that makes the
\* accumulated length equal to the declared one and with no other, it has
\* the declared length and the payload the peer sent, and the accumulator of
\* its chunk stream is empty afterwards; this with the chunks of two chunk
\* streams in any order and the chunk size changed on the way
C40_MessageWhenLengthReached ==
    \A i \in 1..Len(codec.got) :
        LET g == codec.got[i]
            s == codec.sent[i]
        IN  /\ g.err = ""
            /\ g.left = 0
            /\ g.took = Min(g.size, s.length - g.before)
            /\ (g.msg # <<>>) <=> (g.before + g.took = s.length)
            /\ g.msg # <<>>
               => /\ g.msg[1].messageHeader.length = s.length
                  /\ Flatten(g.msg[1].payload) = SentBody(s)
                  /\ ~g.kept
                  /\ g.after = 0
            /\ g.msg = <<>>
               => /\ g.kept
                  /\ g.after = g.before + g.took

\* a message of more than one chunk has been returned whose chunks came with
\* a chunk of the other chunk stream and a Set Chunk Size in between
C40_Witness ==
    \E i, j, k, m \in 1..Len(codec.got) :
        /\ i < j /\ j < m /\ i < k /\ k < m
        /\ codec.sent[i].csid = 3
        /\ codec.got[i].msg = <<>>
        /\ codec.got[i].before = 0
        /\ codec.sent[j].csid = 4
        /\ codec.sent[k].csid = 2
        /\ codec.sent[m].csid = 3
        /\ codec.got[m].msg # <<>>
        /\ \A n \in (i + 1)..(m - 1) : codec.sent[n].csid = 3 => codec.got[n].msg = <<>>

====
